---- MODULE Spec2Model ----
(***************************************************************************)
(* The heuristic content scorer (src/utils/content_scorer.py), the SEO     *)
(* optimizer (src/utils/seo_optimizer.py) and the request pipeline         *)
(* (src/core/orchestrator.py) of ContentBlitz.                             *)
(*                                                                         *)
(* A Python str is a sequence of one-character strings.  Scores are kept   *)
(* in tenths (5.0 is 50), keyword densities as exact fractions and, where  *)
(* the code rounds them, in hundredths of a percent.                       *)
(***************************************************************************)
EXTENDS Integers, Sequences, FiniteSets, TLC

VARIABLES content, content_type, keywords, optimizer, report, analysis, seen

\* process_request: its position, its arguments, its locals, the calls it has
\* made to the agents, its return value, and the two module-level singletons it
\* writes to
VARIABLES pc, query, preferences, routing, research_data, outputs, calls, result,
          memory, store

analyzerVars == <<content, content_type, keywords, optimizer, report, analysis, seen>>

pipelineVars ==
    <<pc, query, preferences, routing, research_data, outputs, calls, result,
      memory, store>>

vars == <<analyzerVars, pipelineVars>>

-----------------------------------------------------------------------------
(* Characters and the str / re primitives the two modules use.             *)

UpperSeq == <<"A","B","C","D","E","F","G","H","I","J","K","L","M",
              "N","O","P","Q","R","S","T","U","V","W","X","Y","Z">>
LowerSeq == <<"a","b","c","d","e","f","g","h","i","j","k","l","m",
              "n","o","p","q","r","s","t","u","v","w","x","y","z">>
UpperChars == {UpperSeq[i] : i \in 1..26}
LowerChars == {LowerSeq[i] : i \in 1..26}
DigitChars == {"0","1","2","3","4","5","6","7","8","9"}
\* \w of the re module on the characters the texts are built from
WordChars == UpperChars \cup LowerChars \cup DigitChars \cup {"_"}
\* \s of the re module, the characters str.strip() removes
SpaceChars == {" ", "\n", "\t"}
\* the class [.!?] both modules split sentences on
SentenceEnd == {".", "!", "?"}
\* code points inside the two ranges of emoji_pattern (grinning face, party popper)
EmojiChars == {"U+1F600", "U+1F389"}

UpperToLower == [c \in UpperChars |-> LowerSeq[CHOOSE i \in 1..26 : UpperSeq[i] = c]]

\* str.lower()
lower(s) ==
    SubSeq([i \in 1..Len(s) |-> IF s[i] \in UpperChars THEN UpperToLower[s[i]] ELSE s[i]],
           1, Len(s))

Min(S) == CHOOSE m \in S : \A n \in S : m <= n

\* s.startswith(w, i): w occurs in s at index i (1-based)
OccursAt(s, w, i) == /\ i >= 1
                     /\ i + Len(w) - 1 <= Len(s)
                     /\ \A j \in 1..Len(w) : s[i + j - 1] = w[j]

\* w in s; the empty string is in every string
Contains(s, w) ==
    \/ Len(w) = 0
    \/ \E i \in 1..(Len(s) - Len(w) + 1) : s[i] = w[1] /\ OccursAt(s, w, i)

\* any(w in s for w in ws)
ContainsAny(s, ws) == \E k \in 1..Len(ws) : Contains(s, ws[k])

\* the left-to-right scan of str.count / str.split / re.findall: the number of
\* matches taken when each match starts at the first candidate at or after the
\* end of the previous one; ends[i] is the index after the match starting at i
RECURSIVE ScanCount(_, _, _)
ScanCount(starts, ends, from) ==
    LET rest == {i \in starts : i >= from}
    IN  IF rest = {} THEN 0
        ELSE 1 + ScanCount(starts, ends, ends[Min(rest)])

\* s.count(w), occurrences that do not overlap; Python counts the empty
\* string once at every index
count(s, w) ==
    IF Len(w) = 0 THEN Len(s) + 1
    ELSE LET starts == {i \in 1..(Len(s) - Len(w) + 1) : OccursAt(s, w, i)}
         IN  ScanCount(starts, [i \in starts |-> i + Len(w)], 1)

\* s[:n]
prefix(s, n) == SubSeq(s, 1, IF n < Len(s) THEN n ELSE Len(s))

\* s[-n:]
suffix(s, n) == SubSeq(s, IF Len(s) > n THEN Len(s) - n + 1 ELSE 1, Len(s))

\* ^ under re.MULTILINE
LineStart(s, i) == i = 1 \/ s[i - 1] = "\n"

\* len(re.findall(r'\b\w+\b', s)): the maximal runs of word characters
WordTokens(s) ==
    Cardinality({i \in 1..Len(s) :
        /\ s[i] \in WordChars
        /\ (i = 1 \/ s[i - 1] \notin WordChars)})

\* the index of the last character at or before i that is not whitespace, 0 if none
RECURSIVE LastNonSpace(_, _)
LastNonSpace(s, i) ==
    IF i = 0 THEN 0
    ELSE IF s[i] \in SpaceChars THEN LastNonSpace(s, i - 1) ELSE i

\* len([x.strip() for x in re.split(r'[.!?]+', s) if x.strip()]): a piece
\* between two runs of terminators is kept when it holds a character that is
\* not whitespace; each kept piece is counted at its first such character
SentenceCount(s) ==
    Cardinality({i \in 1..Len(s) :
        /\ s[i] \notin SpaceChars
        /\ s[i] \notin SentenceEnd
        /\ LET p == LastNonSpace(s, i - 1)
           IN  p = 0 \/ s[p] \in SentenceEnd})

\* len(re.findall('^' + '#' * n + r'\s+', s, re.MULTILINE))
HeadingCount(s, n) ==
    Cardinality({i \in 1..Len(s) :
        /\ LineStart(s, i)
        /\ i + n <= Len(s)
        /\ \A j \in 0..(n - 1) : s[i + j] = "#"
        /\ s[i + n] \in SpaceChars})

\* re.search(r'^\s*[-*+]\s+', s, re.MULTILINE)
HasListLine(s) ==
    \E j \in 1..(Len(s) - 1) :
        /\ s[j] \in {"-", "*", "+"}
        /\ s[j + 1] \in SpaceChars
        /\ \E i \in 1..j : /\ LineStart(s, i)
                           /\ \A k \in i..(j - 1) : s[k] \in SpaceChars

\* re.search(r'\d+%', s)
HasPercent(s) == \E i \in 1..(Len(s) - 1) : s[i] \in DigitChars /\ s[i + 1] = "%"

\* re.search(r'\d+ percent', s)
HasPercentWord(s) ==
    \E i \in 1..Len(s) :
        s[i] \in DigitChars /\ OccursAt(s, <<" ","p","e","r","c","e","n","t">>, i + 1)

\* re.search(r'\d+\.', s)
HasNumberedItem(s) == \E i \in 1..(Len(s) - 1) : s[i] \in DigitChars /\ s[i + 1] = "."

\* len(re.findall(r'\b[A-Z]{4,}\b', s)): the maximal runs of word characters
\* that are four or more capitals and nothing else
CapsWords(s) ==
    Cardinality({i \in 1..Len(s) :
        /\ s[i] \in UpperChars
        /\ (i = 1 \/ s[i - 1] \notin WordChars)
        /\ \E e \in (i + 3)..Len(s) :
              /\ \A k \in i..e : s[k] \in UpperChars
              /\ (e = Len(s) \/ s[e + 1] \notin WordChars)})

\* len(emoji_pattern.findall(s)): the pattern is [...]+, one match per
\* maximal run of emoji
EmojiMatches(s) ==
    Cardinality({i \in 1..Len(s) :
        /\ s[i] \in EmojiChars
        /\ (i = 1 \/ s[i - 1] \notin EmojiChars)})

\* content.split('\n')[0] if content else ""
FirstLine(s) ==
    LET nl == {i \in 1..Len(s) : s[i] = "\n"}
    IN  IF nl = {} THEN s ELSE SubSeq(s, 1, Min(nl) - 1)

\* s.strip().endswith('?')
EndsWithQuestion(s) ==
    LET p == LastNonSpace(s, Len(s)) IN p > 0 /\ s[p] = "?"

-----------------------------------------------------------------------------
(* The word lists of content_scorer.py.                                     *)

\* 'story', 'experience', 'learned', 'discovered', 'realized'
story_words ==
    << <<"s","t","o","r","y">>,
       <<"e","x","p","e","r","i","e","n","c","e">>,
       <<"l","e","a","r","n","e","d">>,
       <<"d","i","s","c","o","v","e","r","e","d">>,
       <<"r","e","a","l","i","z","e","d">> >>

\* 'amazing', 'incredible', 'excited', 'surprised', 'frustrated', 'happy'
emotion_words ==
    << <<"a","m","a","z","i","n","g">>,
       <<"i","n","c","r","e","d","i","b","l","e">>,
       <<"e","x","c","i","t","e","d">>,
       <<"s","u","r","p","r","i","s","e","d">>,
       <<"f","r","u","s","t","r","a","t","e","d">>,
       <<"h","a","p","p","y">> >>

\* 'example', 'for instance'
example_words ==
    << <<"e","x","a","m","p","l","e">>,
       <<"f","o","r"," ","i","n","s","t","a","n","c","e">> >>

\* 'introduction', 'in this', 'today'
intro_words ==
    << <<"i","n","t","r","o","d","u","c","t","i","o","n">>,
       <<"i","n"," ","t","h","i","s">>,
       <<"t","o","d","a","y">> >>

\* 'conclusion', 'in summary', 'to wrap up'
conclusion_words ==
    << <<"c","o","n","c","l","u","s","i","o","n">>,
       <<"i","n"," ","s","u","m","m","a","r","y">>,
       <<"t","o"," ","w","r","a","p"," ","u","p">> >>

\* 'however', 'therefore', 'moreover', 'furthermore', 'additionally', 'consequently'
transitions ==
    << <<"h","o","w","e","v","e","r">>,
       <<"t","h","e","r","e","f","o","r","e">>,
       <<"m","o","r","e","o","v","e","r">>,
       <<"f","u","r","t","h","e","r","m","o","r","e">>,
       <<"a","d","d","i","t","i","o","n","a","l","l","y">>,
       <<"c","o","n","s","e","q","u","e","n","t","l","y">> >>

\* 'learn', 'discover', 'implement', 'apply', 'use', 'try', 'start', 'begin'
action_words ==
    << <<"l","e","a","r","n">>,
       <<"d","i","s","c","o","v","e","r">>,
       <<"i","m","p","l","e","m","e","n","t">>,
       <<"a","p","p","l","y">>,
       <<"u","s","e">>,
       <<"t","r","y">>,
       <<"s","t","a","r","t">>,
       <<"b","e","g","i","n">> >>

\* 'example', "here's how"
practical_words ==
    << <<"e","x","a","m","p","l","e">>,
       <<"h","e","r","e","'","s"," ","h","o","w">> >>

\* 'try', 'start', 'download', 'sign up', 'learn more', 'get started'
cta_words ==
    << <<"t","r","y">>,
       <<"s","t","a","r","t">>,
       <<"d","o","w","n","l","o","a","d">>,
       <<"s","i","g","n"," ","u","p">>,
       <<"l","e","a","r","n"," ","m","o","r","e">>,
       <<"g","e","t"," ","s","t","a","r","t","e","d">> >>

\* 'never', 'always', 'secret', 'truth'
bold_words ==
    << <<"n","e","v","e","r">>,
       <<"a","l","w","a","y","s">>,
       <<"s","e","c","r","e","t">>,
       <<"t","r","u","t","h">> >>

\* 'you', 'your', 'we', 'our'
pronoun_words ==
    << <<"y","o","u">>,
       <<"y","o","u","r">>,
       <<"w","e">>,
       <<"o","u","r">> >>

\* 'what do you think', 'share your', 'comment below'
prompt_phrases ==
    << <<"w","h","a","t"," ","d","o"," ","y","o","u"," ","t","h","i","n","k">>,
       <<"s","h","a","r","e"," ","y","o","u","r">>,
       <<"c","o","m","m","e","n","t"," ","b","e","l","o","w">> >>

\* 'comment', 'share', 'follow', 'connect', 'reach out', 'let me know', 'what do you think', 'join', 'learn more'
cta_phrases ==
    << <<"c","o","m","m","e","n","t">>,
       <<"s","h","a","r","e">>,
       <<"f","o","l","l","o","w">>,
       <<"c","o","n","n","e","c","t">>,
       <<"r","e","a","c","h"," ","o","u","t">>,
       <<"l","e","t"," ","m","e"," ","k","n","o","w">>,
       <<"w","h","a","t"," ","d","o"," ","y","o","u"," ","t","h","i","n","k">>,
       <<"j","o","i","n">>,
       <<"l","e","a","r","n"," ","m","o","r","e">> >>

-----------------------------------------------------------------------------
(* ContentScorer: the dimension scores, in tenths.                         *)

min2(a, b) == IF a < b THEN a ELSE b
max2(a, b) == IF a > b THEN a ELSE b

\* sum(1 for w in ws if w in s)
HitCount(s, ws) == Cardinality({k \in 1..Len(ws) : Contains(s, ws[k])})

_score_engagement(c) ==
    LET low == lower(c)
        score == 50
            + (IF Contains(c, <<"?">>) THEN 10 ELSE 0)
            + (IF ContainsAny(low, story_words) THEN 10 ELSE 0)
            + (IF ContainsAny(low, example_words) THEN 5 ELSE 0)
            + (IF HasPercent(c) \/ HasPercentWord(c) THEN 10 ELSE 0)
            + (IF ContainsAny(low, emotion_words) THEN 5 ELSE 0)
    IN  min2(100, score)

_score_structure(c) ==
    LET h2_count == HeadingCount(c, 2)
        paragraphs == count(c, <<"\n","\n">>) + 1
        score == 50
            + (IF h2_count >= 3 THEN 20 ELSE IF h2_count >= 2 THEN 10 ELSE 0)
            + (IF HasListLine(c) THEN 10 ELSE 0)
            + (IF paragraphs >= 5 THEN 10 ELSE 0)
            + (IF Len(c) > 500 /\ ContainsAny(lower(prefix(c, 200)), intro_words)
                  THEN 5 ELSE 0)
            + (IF Len(c) > 500 /\ ContainsAny(lower(suffix(c, 200)), conclusion_words)
                  THEN 5 ELSE 0)
    IN  min2(100, score)

\* _score_clarity with an average sentence length of 0 for a text without
\* sentences, in place of skipping the sentence-length rules
_score_clarity_zero_average(c) ==
    LET sentences == SentenceCount(c)
        words == WordTokens(c)
        long == IF sentences = 0 THEN 0
                ELSE IF words > 25 * sentences THEN -20
                ELSE IF words > 20 * sentences THEN -10
                ELSE 0
        concise == IF sentences = 0 \/ words < 15 * sentences THEN 10 ELSE 0
        score == 70 + long + concise
            + (IF ContainsAny(lower(c), transitions) THEN 10 ELSE 0)
    IN  min2(100, max2(0, score))

_score_clarity(c) ==
    LET sentences == SentenceCount(c)
        words == WordTokens(c)
        \* avg_sentence_length = words / sentences, compared without dividing
        long == IF sentences = 0 THEN 0
                ELSE IF words > 25 * sentences THEN -20
                ELSE IF words > 20 * sentences THEN -10
                ELSE 0
        concise == IF sentences > 0 /\ words < 15 * sentences THEN 10 ELSE 0
        score == 70 + long + concise
            + (IF ContainsAny(lower(c), transitions) THEN 10 ELSE 0)
    IN  min2(100, max2(0, score))

_score_actionability(c) ==
    LET low == lower(c)
        action_count == HitCount(low, action_words)
        score == 50
            + min2(20, action_count * 5)
            + (IF Contains(low, <<"s","t","e","p">>) \/ HasNumberedItem(c) THEN 15 ELSE 0)
            + (IF ContainsAny(low, practical_words) THEN 10 ELSE 0)
            + (IF ContainsAny(low, cta_words) THEN 5 ELSE 0)
    IN  min2(100, score)

_score_professionalism(c) ==
    LET exclamation_count == count(c, <<"!">>)
        score == 80
            + (IF exclamation_count > 5 THEN -20
               ELSE IF exclamation_count > 3 THEN -10 ELSE 0)
            + (IF CapsWords(c) > 3 THEN -10 ELSE 0)
            + (IF HeadingCount(c, 1) > 0 THEN 10 ELSE 0)
    IN  min2(100, max2(0, score))

\* _score_hook giving the short-line bonus to a first line that is not empty only
_score_hook_nonempty_line(c) ==
    LET first_line == FirstLine(c)
        score == 50
            + (IF EndsWithQuestion(first_line) THEN 20 ELSE 0)
            + (IF HasPercent(first_line) THEN 20 ELSE 0)
            + (IF ContainsAny(lower(first_line), bold_words) THEN 10 ELSE 0)
            + (IF Len(first_line) > 0 /\ Len(first_line) < 100 THEN 10 ELSE 0)
    IN  min2(100, score)

\* _score_hook searching the percentage in the whole content, not in first_line
_score_hook_percent_anywhere(c) ==
    LET first_line == FirstLine(c)
        score == 50
            + (IF EndsWithQuestion(first_line) THEN 20 ELSE 0)
            + (IF HasPercent(c) THEN 20 ELSE 0)
            + (IF ContainsAny(lower(first_line), bold_words) THEN 10 ELSE 0)
            + (IF Len(first_line) < 100 THEN 10 ELSE 0)
    IN  min2(100, score)

_score_hook(c) ==
    LET first_line == FirstLine(c)
        score == 50
            + (IF EndsWithQuestion(first_line) THEN 20 ELSE 0)
            + (IF HasPercent(first_line) THEN 20 ELSE 0)
            + (IF ContainsAny(lower(first_line), bold_words) THEN 10 ELSE 0)
            + (IF Len(first_line) < 100 THEN 10 ELSE 0)
    IN  min2(100, score)

_score_linkedin_engagement(c) ==
    LET low == lower(c)
        line_breaks == count(c, <<"\n","\n">>)
        score == 50
            + (IF line_breaks >= 3 THEN 15 ELSE 0)
            + (IF Contains(c, <<"?">>) THEN 10 ELSE 0)
            + (IF ContainsAny(low, pronoun_words) THEN 10 ELSE 0)
            + (IF Contains(c, <<"#">>) THEN 5 ELSE 0)
            + (IF ContainsAny(low, prompt_phrases) THEN 10 ELSE 0)
    IN  min2(100, score)

\* _score_cta counting the phrases in the content before its last 200 characters
_score_cta_counting_before_end(c) ==
    LET body == SubSeq(c, 1, IF Len(c) > 200 THEN Len(c) - 200 ELSE 0)
        cta_count == HitCount(lower(body), cta_phrases)
        last_section == lower(suffix(c, 200))
        score == 50
            + min2(30, cta_count * 15)
            + (IF ContainsAny(last_section, cta_phrases) THEN 20 ELSE 0)
    IN  min2(100, score)

_score_cta(c) ==
    LET cta_count == HitCount(lower(c), cta_phrases)
        last_section == lower(suffix(c, 200))
        score == 50
            + min2(30, cta_count * 15)
            + (IF ContainsAny(last_section, cta_phrases) THEN 20 ELSE 0)
    IN  min2(100, score)

_score_linkedin_formatting(c) ==
    LET emoji_count == EmojiMatches(c)
        char_count == Len(c)
        score == 50
            + (IF Contains(c, <<"\n","\n">>) THEN 20 ELSE 0)
            + (IF 1 <= emoji_count /\ emoji_count <= 5 THEN 15
               ELSE IF emoji_count > 10 THEN -10 ELSE 0)
            + (IF 500 <= char_count /\ char_count <= 2000 THEN 15
               ELSE IF char_count > 3000 THEN -10 ELSE 0)
    IN  min2(100, max2(0, score))

-----------------------------------------------------------------------------
(* ContentScorer: the reports.  A dict is a sequence of key/value entries  *)
(* in insertion order; the timestamp of a report is left out.              *)

RECURSIVE SumValues(_)
SumValues(d) == IF d = <<>> THEN 0 ELSE d[1].value + SumValues(Tail(d))

\* round(num / den, ndigits) in units of the last digit kept; a tie goes to
\* the even neighbour.  Python rounds the binary float, so a decimal tie that
\* the float does not hold exactly (10.05) goes by the float's error; a mean of
\* three or five scores never ties, and the texts of Inputs give no word,
\* sentence or keyword count whose quotient does.
RoundHalfEven(num, den) ==
    LET q == num \div den
        r == num % den
    IN  IF 2 * r < den THEN q
        ELSE IF 2 * r > den THEN q + 1
        ELSE IF q % 2 = 0 THEN q ELSE q + 1

\* _get_grade with exclusive lower bounds (> where the code has >=)
_get_grade_exclusive(num, den) ==
    IF num > 90 * den THEN "A+"
    ELSE IF num > 85 * den THEN "A"
    ELSE IF num > 80 * den THEN "A-"
    ELSE IF num > 75 * den THEN "B+"
    ELSE IF num > 70 * den THEN "B"
    ELSE IF num > 65 * den THEN "B-"
    ELSE IF num > 60 * den THEN "C+"
    ELSE IF num > 55 * den THEN "C"
    ELSE "C-"

\* the argument of _get_grade is the unrounded mean num / den (in tenths)
_get_grade(num, den) ==
    IF num >= 90 * den THEN "A+"
    ELSE IF num >= 85 * den THEN "A"
    ELSE IF num >= 80 * den THEN "A-"
    ELSE IF num >= 75 * den THEN "B+"
    ELSE IF num >= 70 * den THEN "B"
    ELSE IF num >= 65 * den THEN "B-"
    ELSE IF num >= 60 * den THEN "C+"
    ELSE IF num >= 55 * den THEN "C"
    ELSE "C-"

\* dimension.replace('_', ' ') on the dimension names
Spaced(dimension) ==
    CASE dimension = "hook_strength" -> "hook strength"
      [] dimension = "engagement_potential" -> "engagement potential"
      [] dimension = "call_to_action" -> "call to action"
      [] OTHER -> dimension

\* dimension.replace('_', ' ').title() on the dimension names
Titled(dimension) ==
    CASE dimension = "engagement" -> "Engagement"
      [] dimension = "structure" -> "Structure"
      [] dimension = "clarity" -> "Clarity"
      [] dimension = "actionability" -> "Actionability"
      [] dimension = "professionalism" -> "Professionalism"
      [] dimension = "hook_strength" -> "Hook Strength"
      [] dimension = "engagement_potential" -> "Engagement Potential"
      [] dimension = "call_to_action" -> "Call To Action"
      [] dimension = "formatting" -> "Formatting"

RECURSIVE StrengthsOf(_)
StrengthsOf(scores) ==
    IF scores = <<>> THEN <<>>
    ELSE (IF scores[1].value >= 80 THEN <<Titled(scores[1].key)>> ELSE <<>>)
         \o StrengthsOf(Tail(scores))

\* _identify_strengths with score > 8.0 in place of score >= 8.0
_identify_strengths_exclusive(scores) ==
    LET above == SelectSeq(scores, LAMBDA e : e.value > 80)
    IN  IF above = <<>> THEN <<"Good baseline quality">>
        ELSE [i \in 1..Len(above) |-> Titled(above[i].key)]

_identify_strengths(scores) ==
    LET strengths == StrengthsOf(scores)
    IN  IF strengths = <<>> THEN <<"Good baseline quality">> ELSE strengths

RECURSIVE ImprovementsOf(_)
ImprovementsOf(scores) ==
    IF scores = <<>> THEN <<>>
    ELSE (IF scores[1].value < 60 THEN <<<<"Improve", Spaced(scores[1].key)>>>> ELSE <<>>)
         \o ImprovementsOf(Tail(scores))

_identify_improvements(scores) ==
    LET improvements == ImprovementsOf(scores)
    IN  IF improvements = <<>> THEN <<<<"Minor refinements only">>>> ELSE improvements

\* the return statement of _score_blog_content; overall = sum / len is the
\* fraction SumValues(scores) / Len(scores)
BlogReport(scores) ==
    [overall_score |-> RoundHalfEven(SumValues(scores), Len(scores)),
     dimension_scores |-> scores,
     grade |-> _get_grade(SumValues(scores), Len(scores)),
     strengths |-> _identify_strengths(scores),
     improvements |-> _identify_improvements(scores)]

_score_blog_content(c) ==
    BlogReport(<< [key |-> "engagement", value |-> _score_engagement(c)],
                  [key |-> "structure", value |-> _score_structure(c)],
                  [key |-> "clarity", value |-> _score_clarity(c)],
                  [key |-> "actionability", value |-> _score_actionability(c)],
                  [key |-> "professionalism", value |-> _score_professionalism(c)] >>)

\* the return statement of _score_linkedin_content
LinkedinReport(scores, c) ==
    [overall_score |-> RoundHalfEven(SumValues(scores), Len(scores)),
     dimension_scores |-> scores,
     grade |-> _get_grade(SumValues(scores), Len(scores)),
     character_count |-> Len(c),
     strengths |-> _identify_strengths(scores),
     improvements |-> _identify_improvements(scores)]

_score_linkedin_content(c) ==
    LinkedinReport(
        << [key |-> "hook_strength", value |-> _score_hook(c)],
           [key |-> "engagement_potential", value |-> _score_linkedin_engagement(c)],
           [key |-> "professionalism", value |-> _score_professionalism(c)],
           [key |-> "call_to_action", value |-> _score_cta(c)],
           [key |-> "formatting", value |-> _score_linkedin_formatting(c)] >>, c)

\* _score_general_content cutting the mean to one decimal instead of rounding it
GeneralReportTruncated(scores) ==
    [overall_score |-> SumValues(scores) \div Len(scores),
     dimension_scores |-> scores,
     grade |-> _get_grade(SumValues(scores), Len(scores))]

\* the return statement of _score_general_content: no strengths, no improvements
GeneralReport(scores) ==
    [overall_score |-> RoundHalfEven(SumValues(scores), Len(scores)),
     dimension_scores |-> scores,
     grade |-> _get_grade(SumValues(scores), Len(scores))]

_score_general_content(c) ==
    GeneralReport(<< [key |-> "clarity", value |-> _score_clarity(c)],
                     [key |-> "engagement", value |-> _score_engagement(c)],
                     [key |-> "professionalism", value |-> _score_professionalism(c)] >>)

\* score_content falling back to the blog scorer for a content type it does not name
score_content_blog_default(c, t) ==
    IF t = "linkedin" THEN _score_linkedin_content(c)
    ELSE IF t = "general" THEN _score_general_content(c)
    ELSE _score_blog_content(c)

score_content(c, t) ==
    IF t = "blog" THEN _score_blog_content(c)
    ELSE IF t = "linkedin" THEN _score_linkedin_content(c)
    ELSE _score_general_content(c)


-----------------------------------------------------------------------------
(* SEOOptimizer.  Densities are in hundredths of a percent.                *)

\* __init__: the three class attributes; ideal_keyword_density (1.0, 2.5)
NewOptimizer ==
    [ideal_title_length |-> <<50, 60>>,
     ideal_meta_desc_length |-> <<150, 160>>,
     ideal_keyword_density |-> <<100, 250>>]

_count_words(c) == WordTokens(lower(c))

\* the index after the maximal run of characters of S that starts at i
RunEnd(s, i, S) == Min({k \in i..(Len(s) + 1) : k = Len(s) + 1 \/ s[k] \notin S})

\* the index of the last character of the line that holds index i
LineEnd(s, i) == Min({k \in i..(Len(s) + 1) : k = Len(s) + 1 \/ s[k] = "\n"}) - 1

NoMatch == [from |-> 0, to |-> 0]

\* the group (.+) of a match of r'^#{1,6}\s+(.+)$' (re.MULTILINE) that starts
\* at i, as the index range it covers, or NoMatch.  \s+ takes the whole run of
\* whitespace, newlines included; when that run ends the text it gives back
\* characters until (.+) holds one that is not a newline.
HeadingGroup(s, i) ==
    IF ~(LineStart(s, i) /\ i <= Len(s) /\ s[i] = "#") THEN NoMatch
    ELSE LET a == RunEnd(s, i, {"#"})
             b == RunEnd(s, a, SpaceChars)
             back == {q \in (a + 1)..Len(s) : s[q] # "\n"}
         IN  IF a - i > 6 \/ b = a THEN NoMatch
             ELSE IF b <= Len(s) THEN [from |-> b, to |-> LineEnd(s, b)]
             ELSE IF back = {} THEN NoMatch
             ELSE LET q == CHOOSE m \in back : \A n \in back : n <= m
                  IN  [from |-> q, to |-> q]

\* the starts of the matches re.findall takes, scanning left to right
RECURSIVE ScanMatches(_, _, _)
ScanMatches(starts, ends, from) ==
    LET rest == {i \in starts : i >= from}
    IN  IF rest = {} THEN {}
        ELSE {Min(rest)} \cup ScanMatches(starts, ends, ends[Min(rest)])

_check_keyword_in_headings(c, keyword) ==
    LET starts == {i \in 1..Len(c) : HeadingGroup(c, i) # NoMatch}
        taken == ScanMatches(starts, [i \in starts |-> HeadingGroup(c, i).to + 1], 1)
    IN  \E i \in taken :
            LET g == HeadingGroup(c, i)
            IN  Contains(lower(SubSeq(c, g.from, g.to)), keyword)

_assess_keyword_usage(ideal, density_num, density_den, cnt) ==
    IF cnt = 0 THEN "missing"
    ELSE IF density_num < ideal[1] * density_den THEN "too_low"
    ELSE IF density_num > ideal[2] * density_den THEN "too_high"
    ELSE "optimal"

\* keyword_data kept as a list of (keyword, entry) pairs: keyword_data.append(...)
DictAppend(d, k, v) == Append(d, [key |-> k, value |-> v])

\* keyword_data[keyword] = value
DictSet(d, k, v) ==
    IF \E i \in 1..Len(d) : d[i].key = k
    THEN [i \in 1..Len(d) |-> IF d[i].key = k THEN [key |-> k, value |-> v] ELSE d[i]]
    ELSE Append(d, [key |-> k, value |-> v])

\* the entry of keyword_data for one keyword, given its count
KeywordEntry(ideal, c, content_lower, total_words, keyword_lower, cnt) ==
    LET \* density = cnt / total_words * 100, kept as a fraction
        density_num == IF total_words > 0 THEN cnt * 10000 ELSE 0
        density_den == IF total_words > 0 THEN total_words ELSE 1
    IN  [count |-> cnt,
         density |-> RoundHalfEven(density_num, density_den),
         in_first_paragraph |-> Contains(prefix(content_lower, 500), keyword_lower),
         in_headings |-> _check_keyword_in_headings(c, keyword_lower),
         status |-> _assess_keyword_usage(ideal, density_num, density_den, cnt)]

\* the body of the loop counting the keyword as given in the content as given,
\* content.count(keyword), while the placement checks compare lowered text
KeywordStat_case_sensitive_count(ideal, c, content_lower, total_words, keyword) ==
    KeywordEntry(ideal, c, content_lower, total_words, lower(keyword),
                 count(c, keyword))

\* the body of the loop of _analyze_keywords for one keyword
KeywordStat(ideal, c, content_lower, total_words, keyword) ==
    KeywordEntry(ideal, c, content_lower, total_words, lower(keyword),
                 count(content_lower, lower(keyword)))

RECURSIVE KeywordLoop(_, _, _, _, _, _)
KeywordLoop(ideal, c, content_lower, total_words, kws, keyword_data) ==
    IF kws = <<>> THEN keyword_data
    ELSE KeywordLoop(ideal, c, content_lower, total_words, Tail(kws),
            DictSet(keyword_data, kws[1],
                    KeywordStat(ideal, c, content_lower, total_words, kws[1])))

_analyze_keywords(self, c, kws) ==
    KeywordLoop(self.ideal_keyword_density, c, lower(c), WordTokens(lower(c)), kws, <<>>)

\* len(s.split()): the maximal runs of characters that are not whitespace
WhitespaceTokens(s) ==
    Cardinality({i \in 1..Len(s) :
        /\ s[i] \notin SpaceChars
        /\ (i = 1 \/ s[i - 1] \in SpaceChars)})

\* _analyze_readability counting words with content.split() instead of \b\w+\b
_analyze_readability_split_words(c) ==
    LET sentences == SentenceCount(c)
        words == WhitespaceTokens(c)
    IN  [sentence_count |-> sentences,
         avg_sentence_length |-> IF sentences > 0 THEN RoundHalfEven(words * 10, sentences) ELSE 0,
         readability_level |->
             IF sentences = 0 \/ words < 15 * sentences THEN "easy"
             ELSE IF words < 20 * sentences THEN "moderate"
             ELSE "difficult",
         paragraph_count |-> count(c, <<"\n","\n">>) + 1]

_analyze_readability(c) ==
    LET sentences == SentenceCount(c)
        words == WordTokens(c)
    IN  [sentence_count |-> sentences,
         \* in tenths
         avg_sentence_length |-> IF sentences > 0 THEN RoundHalfEven(words * 10, sentences) ELSE 0,
         readability_level |->
             IF sentences = 0 \/ words < 15 * sentences THEN "easy"
             ELSE IF words < 20 * sentences THEN "moderate"
             ELSE "difficult",
         paragraph_count |-> count(c, <<"\n","\n">>) + 1]

\* the index after the match of r'\[.+?\]\(.+?\)' that starts at i, 0 if there
\* is none: each lazy group takes the fewest characters (none a newline) that
\* let the rest of the pattern match
LinkEnd(s, i) ==
    IF ~(i <= Len(s) /\ s[i] = "[") THEN 0
    ELSE LET Closes(j) == {k \in (j + 3)..Len(s) :
                              /\ s[k] = ")"
                              /\ \A m \in (j + 2)..(k - 1) : s[m] # "\n"}
             mids == {j \in (i + 2)..(Len(s) - 1) :
                         /\ s[j] = "]"
                         /\ s[j + 1] = "("
                         /\ \A m \in (i + 1)..(j - 1) : s[m] # "\n"
                         /\ Closes(j) # {}}
         IN  IF mids = {} THEN 0 ELSE Min(Closes(Min(mids))) + 1

\* len(re.findall(r'\[.+?\]\(.+?\)', content))
LinkCount(s) ==
    LET starts == {i \in 1..Len(s) : LinkEnd(s, i) # 0}
    IN  ScanCount(starts, [i \in starts |-> LinkEnd(s, i)], 1)

_analyze_structure(c) ==
    LET h1_count == HeadingCount(c, 1)
        h2_count == HeadingCount(c, 2)
    IN  [h1_count |-> h1_count,
         h2_count |-> h2_count,
         h3_count |-> HeadingCount(c, 3),
         has_lists |-> HasListLine(c),
         link_count |-> LinkCount(c),
         has_proper_hierarchy |-> (h1_count = 1 /\ h2_count >= 2)]

\* the messages of one keyword_analysis entry, in the order the loop appends them
KeywordMessages(keyword, data) ==
    (IF data.status = "missing" THEN <<<<"not present", keyword>>>>
     ELSE IF data.status = "too_low" THEN <<<<"density too low", keyword>>>>
     ELSE IF data.status = "too_high" THEN <<<<"density too high", keyword>>>>
     ELSE <<>>)
    \o (IF ~data.in_first_paragraph THEN <<<<"first paragraph", keyword>>>> ELSE <<>>)
    \o (IF ~data.in_headings THEN <<<<"heading", keyword>>>> ELSE <<>>)

RECURSIVE KeywordRecommendations(_)
KeywordRecommendations(keyword_analysis) ==
    IF keyword_analysis = <<>> THEN <<>>
    ELSE KeywordMessages(keyword_analysis[1].key, keyword_analysis[1].value)
         \o KeywordRecommendations(Tail(keyword_analysis))

\* _generate_recommendations with the too-short message under 500 words only
_generate_recommendations_short_under_500(a) ==
    (IF a.word_count < 500 THEN <<<<"too short">>>> ELSE <<>>)
    \o KeywordRecommendations(a.keyword_analysis)
    \o (IF a.structure.h1_count = 0 THEN <<<<"add h1">>>>
        ELSE IF a.structure.h1_count > 1 THEN <<<<"one h1 only">>>> ELSE <<>>)
    \o (IF a.structure.h2_count < 2 THEN <<<<"more h2">>>> ELSE <<>>)
    \o (IF ~a.structure.has_lists THEN <<<<"add lists">>>> ELSE <<>>)
    \o (IF a.structure.link_count < 2 THEN <<<<"add links">>>> ELSE <<>>)
    \o (IF a.readability.readability_level = "difficult" THEN <<<<"simplify">>>> ELSE <<>>)

\* _generate_recommendations with the structure rules ahead of the keyword loop
_generate_recommendations_structure_first(a) ==
    (IF a.word_count < 800 THEN <<<<"too short">>>> ELSE <<>>)
    \o (IF a.structure.h1_count = 0 THEN <<<<"add h1">>>>
        ELSE IF a.structure.h1_count > 1 THEN <<<<"one h1 only">>>> ELSE <<>>)
    \o (IF a.structure.h2_count < 2 THEN <<<<"more h2">>>> ELSE <<>>)
    \o (IF ~a.structure.has_lists THEN <<<<"add lists">>>> ELSE <<>>)
    \o (IF a.structure.link_count < 2 THEN <<<<"add links">>>> ELSE <<>>)
    \o KeywordRecommendations(a.keyword_analysis)
    \o (IF a.readability.readability_level = "difficult" THEN <<<<"simplify">>>> ELSE <<>>)

\* a message is the rule that emits it and, for the f-strings, the keyword
_generate_recommendations(a) ==
    (IF a.word_count < 800 THEN <<<<"too short">>>> ELSE <<>>)
    \o KeywordRecommendations(a.keyword_analysis)
    \o (IF a.structure.h1_count = 0 THEN <<<<"add h1">>>>
        ELSE IF a.structure.h1_count > 1 THEN <<<<"one h1 only">>>> ELSE <<>>)
    \o (IF a.structure.h2_count < 2 THEN <<<<"more h2">>>> ELSE <<>>)
    \o (IF ~a.structure.has_lists THEN <<<<"add lists">>>> ELSE <<>>)
    \o (IF a.structure.link_count < 2 THEN <<<<"add links">>>> ELSE <<>>)
    \o (IF a.readability.readability_level = "difficult" THEN <<<<"simplify">>>> ELSE <<>>)

\* the keyword loop of _calculate_seo_score charging 30 for a keyword whose
\* density is too high, in place of the 10 of every status that is not optimal
KeywordPenaltiesStuffing(keyword_analysis) ==
    LET Charge(keyword_data) ==
            (IF keyword_data.status = "missing" THEN 20
             ELSE IF keyword_data.status = "too_high" THEN 30
             ELSE IF keyword_data.status # "optimal" THEN 10 ELSE 0)
            + (IF ~keyword_data.in_first_paragraph THEN 5 ELSE 0)
        RECURSIVE Total(_)
        Total(n) == IF n = 0 THEN 0 ELSE Charge(keyword_analysis[n].value) + Total(n - 1)
    IN  Total(Len(keyword_analysis))

RECURSIVE KeywordPenalties(_)
KeywordPenalties(keyword_analysis) ==
    IF keyword_analysis = <<>> THEN 0
    ELSE LET keyword_data == keyword_analysis[1].value
         IN  (IF keyword_data.status = "missing" THEN 20
              ELSE IF keyword_data.status # "optimal" THEN 10 ELSE 0)
             + (IF ~keyword_data.in_first_paragraph THEN 5 ELSE 0)
             + KeywordPenalties(Tail(keyword_analysis))

\* _calculate_seo_score returning the score as summed, without max(0, min(100, score))
_calculate_seo_score_unclamped(a) ==
    100
    - (IF a.word_count < 500 THEN 30 ELSE IF a.word_count < 800 THEN 15 ELSE 0)
    - KeywordPenalties(a.keyword_analysis)
    - (IF ~a.structure.has_proper_hierarchy THEN 10 ELSE 0)
    - (IF a.structure.link_count < 2 THEN 5 ELSE 0)

\* _calculate_seo_score with one length tier: 30 for every text under 800 words
_calculate_seo_score_one_tier(a) ==
    LET score == 100
            - (IF a.word_count < 800 THEN 30 ELSE 0)
            - KeywordPenalties(a.keyword_analysis)
            - (IF ~a.structure.has_proper_hierarchy THEN 10 ELSE 0)
            - (IF a.structure.link_count < 2 THEN 5 ELSE 0)
    IN  max2(0, min2(100, score))

_calculate_seo_score(a) ==
    LET score == 100
            - (IF a.word_count < 500 THEN 30 ELSE IF a.word_count < 800 THEN 15 ELSE 0)
            - KeywordPenalties(a.keyword_analysis)
            - (IF ~a.structure.has_proper_hierarchy THEN 10 ELSE 0)
            - (IF a.structure.link_count < 2 THEN 5 ELSE 0)
    IN  max2(0, min2(100, score))

\* the two assignments that complete the analysis dict
WithRecommendationsAndScore(a) ==
    [word_count |-> a.word_count,
     keyword_analysis |-> a.keyword_analysis,
     readability |-> a.readability,
     structure |-> a.structure,
     recommendations |-> _generate_recommendations(a),
     seo_score |-> _calculate_seo_score(a)]

analyze_content(self, c, kws) ==
    WithRecommendationsAndScore(
        [word_count |-> _count_words(c),
         keyword_analysis |-> _analyze_keywords(self, c, kws),
         readability |-> _analyze_readability(c),
         structure |-> _analyze_structure(c)])

(***************************************************************************)
(* The texts and keyword lists the analyzers are called with.              *)
(***************************************************************************)
\* The filler sentence "a b c d e f g h i j. ": ten words, none in any word list.
Sentence ==
    <<"a"," ","b"," ","c"," ","d"," ","e"," ","f"," ","g"," ","h"," ","i"," ","j","."," ">>

\* The openings of the texts:
\*   1. no heading: ''
\*   2. one H1 naming a keyword and two H2: '# AI Guide\n\n## Why\n\n## How so\n\n'
\*   3. a short first line with a bold word, a percentage and a question mark: 'Never 5%?\n\n'
\*   4. five all-caps words and six exclamation marks: 'STOP THIS CRAZY SHOUTING NOW!!!!!!\n'
\*   5. two H1, one H2 naming a keyword, a list line with two links: '# A\n# B\n## seo\n- [a](b) [c](d)\n'
\*   6. a list line without any word token: '- ?!\n'
Heads ==
    << <<>>,
       <<"#"," ","A","I"," ","G","u","i","d","e","\n","\n","#","#"," ","W","h","y","\n","\n","#","#"," ","H","o","w"," ","s","o","\n","\n">>,
       <<"N","e","v","e","r"," ","5","%","?","\n","\n">>,
       <<"S","T","O","P"," ","T","H","I","S"," ","C","R","A","Z","Y"," ","S","H","O","U","T","I","N","G"," ","N","O","W","!","!","!","!","!","!","\n">>,
       <<"#"," ","A","\n","#"," ","B","\n","#","#"," ","s","e","o","\n","-"," ","[","a","]","(","b",")"," ","[","c","]","(","d",")","\n">>,
       <<"-"," ","?","!","\n">> >>

\* The endings of the texts:
\*   1. nothing: ''
\*   2. one more sentence, the keyword ai: ' ai.'
\*   3. a closing paragraph with conclusion, transition, action, example, step, call-to-action words and an emoji: '\n\nIn summary, however, try this example: step 1. Comment below and share your story <U+1F600>'
\*   4. thirty words without a sentence terminator: "k k k ... k"
Tails ==
    << <<>>,
       <<" ","a","i",".">>,
       <<"\n","\n","I","n"," ","s","u","m","m","a","r","y",","," ","h","o","w","e","v","e","r",","," ","t","r","y"," ","t","h","i","s"," ","e","x","a","m","p","l","e",":"," ","s","t","e","p"," ","1","."," ","C","o","m","m","e","n","t"," ","b","e","l","o","w"," ","a","n","d"," ","s","h","a","r","e"," ","y","o","u","r"," ","s","t","o","r","y"," ","U+1F600">>,
       <<"k"," ","k"," ","k"," ","k"," ","k"," ","k"," ","k"," ","k"," ","k"," ","k"," ","k"," ","k"," ","k"," ","k"," ","k"," ","k"," ","k"," ","k"," ","k"," ","k"," ","k"," ","k"," ","k"," ","k"," ","k"," ","k"," ","k"," ","k"," ","k"," ","k">> >>

(***************************************************************************)
(* The callers' requests.  A text is an opening, a number of filler        *)
(* sentences and an ending; the fill counts put the word count in each of  *)
(* the brackets the SEO score distinguishes (under 500, under 800, 800     *)
(* and more).                                                              *)
(***************************************************************************)
ShortFill == 5
MidFill == 50
LongFill == 80
MaxKeywords == 3
MaxCalls == 3

Rep(p, n) ==
    SubSeq([i \in 1..(n * Len(p)) |-> p[((i - 1) % Len(p)) + 1]], 1, n * Len(p))

TextOf(h, n, t) == Heads[h] \o Rep(Sentence, n) \o Tails[t]

ShortTexts ==
    {TextOf(h, n, t) : h \in 1..Len(Heads), n \in {0, ShortFill}, t \in 1..Len(Tails)}

LongTexts ==
    {TextOf(h, n, t) : h \in 1..Len(Heads), n \in {MidFill, LongFill}, t \in 1..Len(Tails)}

\* Texts at the edges of the rules:
\*   1. 201 words in 21 sentences, the keyword ai twice: 19 filler sentences and
\*      'a b c d e f g h. i ai ai.' (density 0.995...)
\*   2. 314 words in 21 sentences: 20 filler sentences and 114 words without a
\*      terminator (14.95... words a sentence)
\*   3. six emoji in a row
\*   4. six emoji, a space between any two
\*   5. a plain first line, then a line with a bold word, a percentage and a
\*      question mark: 'Plain start\nNever 5%?'
\*   6. a long text no rule objects to: one H1, two H2, a list line with two
\*      links, LongFill filler sentences
\*   7. the same without the list marker
\*   8. one call-to-action phrase more than 200 characters before the end:
\*      'Join us. ' and 2 * ShortFill filler sentences
\*   9. two such phrases: 'Join and follow. ' and 2 * ShortFill filler sentences
\*  10. one phrase in a text of twelve characters: 'Try to join.'
EdgeTexts ==
    { Rep(Sentence, 19) \o <<"a"," ","b"," ","c"," ","d"," ","e"," ","f"," ","g"," ","h","."," ","i"," ","a","i"," ","a","i",".">>,
      Rep(Sentence, 20) \o Rep(<<"k"," ">>, 114),
      Rep(<<"U+1F600">>, 6),
      Rep(<<"U+1F600"," ">>, 5) \o <<"U+1F600">>,
      <<"P","l","a","i","n"," ","s","t","a","r","t","\n","N","e","v","e","r"," ","5","%","?">>,
      Heads[2] \o <<"-"," ","[","a","]","(","b",")"," ","[","c","]","(","d",")","\n">> \o Rep(Sentence, LongFill),
      Heads[2] \o <<"[","a","]","(","b",")"," ","[","c","]","(","d",")","\n">> \o Rep(Sentence, LongFill),
      <<"J","o","i","n"," ","u","s","."," ">> \o Rep(Sentence, 2 * ShortFill),
      <<"J","o","i","n"," ","a","n","d"," ","f","o","l","l","o","w","."," ">> \o Rep(Sentence, 2 * ShortFill),
      <<"T","r","y"," ","t","o"," ","j","o","i","n",".">> }

\* "short_form" is a value no branch of score_content names.
ContentTypes == {"blog", "linkedin", "general", "short_form"}

\* "ai" and "AI" differ as keys and agree once lowered.
KeywordAlphabet == {<<"a","i">>, <<"A","I">>, <<"s","e","o">>}

KeywordLists(n) == UNION {[1..k -> KeywordAlphabet] : k \in 0..n}

Request(c, t, kws) == [content |-> c, content_type |-> t, keywords |-> kws]

Inputs ==
    {Request(c, t, <<>>) : c \in ShortTexts \cup LongTexts \cup EdgeTexts, t \in ContentTypes}
    \cup {Request(c, "blog", kws) : c \in ShortTexts, kws \in KeywordLists(MaxKeywords)}
    \cup {Request(c, "blog", kws) : c \in LongTexts \cup EdgeTexts, kws \in KeywordLists(1)}

\* The requests of a session that calls the analyzers again and again.
SessionInputs ==
    {Request(TextOf(h, 0, 1), t, kws) :
        h \in {1, 2}, t \in {"blog", "linkedin"}, kws \in {<<>>, << <<"A","I">> >>}}

\* A dict without keys.
EmptyDict == <<>>

\* A local variable that is not bound yet.
Unbound == "<unbound>"

\* json.loads has not returned yet.
NoRouting == [json |-> "none"]

\* process_request has not returned yet.
NoResult == [returned |-> FALSE]

\* VectorStore.__init__
EmptyStore == [documents |-> <<>>, brand_voice_docs |-> <<>>, research_docs |-> <<>>]

\* No request is being served: the state of the orchestrator after the modules
\* are imported.
PipelineIdle ==
    /\ pc = "idle"
    /\ query = <<>>
    /\ preferences = EmptyDict
    /\ routing = NoRouting
    /\ research_data = Unbound
    /\ outputs = EmptyDict
    /\ calls = <<>>
    /\ result = NoResult
    /\ memory = <<>>
    /\ store = EmptyStore

\* The value of a report variable before the analyzer has returned one.
NoReport == [called |-> FALSE]

Init ==
    /\ \E r \in Inputs :
          /\ content = r.content
          /\ content_type = r.content_type
          /\ keywords = r.keywords
    /\ optimizer = NewOptimizer
    /\ report = NoReport
    /\ analysis = NoReport
    /\ seen = {}
    /\ PipelineIdle

\* One call of ContentScorer.score_content(content, content_type).
ScoreContent ==
    /\ UNCHANGED <<content, content_type, keywords, optimizer, analysis>>
    /\ UNCHANGED pipelineVars
    /\ report' = score_content(content, content_type)
    /\ seen' = seen \cup {[fn |-> "score_content", content |-> content,
                           arg |-> <<content_type>>, arg_after |-> <<content_type'>>,
                           result |-> report']}

\* analyze_content lower-casing the caller's keyword list in place
\* (keywords[:] = [k.lower() for k in keywords]) before it analyses it
AnalyzeContentLoweringInPlace ==
    /\ UNCHANGED <<content, content_type, optimizer, report>>
    /\ UNCHANGED pipelineVars
    /\ keywords' = SubSeq([i \in 1..Len(keywords) |-> lower(keywords[i])], 1, Len(keywords))
    /\ analysis' = analyze_content(optimizer, content, keywords')
    /\ seen' = seen \cup {[fn |-> "analyze_content", content |-> content,
                           arg |-> keywords, arg_after |-> keywords',
                           result |-> analysis']}

\* One call of SEOOptimizer.analyze_content(content, keywords).
AnalyzeContent ==
    /\ UNCHANGED <<content, content_type, keywords, optimizer, report>>
    /\ UNCHANGED pipelineVars
    /\ analysis' = analyze_content(optimizer, content, keywords)
    /\ seen' = seen \cup {[fn |-> "analyze_content", content |-> content,
                           arg |-> keywords, arg_after |-> keywords',
                           result |-> analysis']}

\* A request is scored and analysed once each, in either order.
Next ==
    \/ report = NoReport /\ ScoreContent
    \/ analysis = NoReport /\ AnalyzeContent

Spec == Init /\ [][Next]_vars

\* A session: the caller changes its arguments between calls.
SessionInit ==
    /\ \E r \in SessionInputs :
          /\ content = r.content
          /\ content_type = r.content_type
          /\ keywords = r.keywords
    /\ optimizer = NewOptimizer
    /\ report = NoReport
    /\ analysis = NoReport
    /\ seen = {}
    /\ PipelineIdle

SetArguments ==
    /\ \E r \in SessionInputs :
          /\ content' = r.content
          /\ content_type' = r.content_type
          /\ keywords' = r.keywords
    /\ UNCHANGED <<optimizer, report, analysis, seen>>
    /\ UNCHANGED pipelineVars

SessionNext ==
    \/ SetArguments
    \/ Cardinality(seen) < MaxCalls /\ ScoreContent
    \/ Cardinality(seen) < MaxCalls /\ AnalyzeContent

SessionSpec == SessionInit /\ [][SessionNext]_vars

\* A revision: the author inserts occurrences of the keywords into the text and
\* has it analysed again after each insertion.
RevisionInputs ==
    {Request(TextOf(h, n, 1), "blog", kws) :
        h \in {1, 2}, n \in {0, ShortFill, 3 * ShortFill},
        kws \in KeywordLists(2) \ {<<>>}}

RevisionInit ==
    /\ \E r \in RevisionInputs :
          /\ content = r.content
          /\ content_type = r.content_type
          /\ keywords = r.keywords
    /\ optimizer = NewOptimizer
    /\ report = NoReport
    /\ analysis = NoReport
    /\ seen = {}
    /\ PipelineIdle

\* the places of an insertion: the start of the text (inside the first 500
\* characters), the end of the first line (a heading, when the text opens with
\* one) and the end of the text
InsertPositions(c) == {0, Len(FirstLine(c)), Len(c)}

Insert(c, p, keyword) ==
    SubSeq(c, 1, p) \o <<" ">> \o keyword \o <<" ">> \o SubSeq(c, p + 1, Len(c))

\* One insertion of a keyword, and analyze_content on the revised text.
InsertKeyword ==
    /\ analysis # NoReport
    /\ Cardinality(seen) < MaxCalls
    /\ \E n \in 1..Len(keywords), p \in InsertPositions(content) :
          content' = Insert(content, p, keywords[n])
    /\ UNCHANGED <<content_type, keywords, optimizer, report>>
    /\ UNCHANGED pipelineVars
    /\ analysis' = analyze_content(optimizer, content', keywords)
    /\ seen' = seen \cup {[fn |-> "analyze_content", content |-> content',
                           arg |-> keywords, arg_after |-> keywords',
                           result |-> analysis']}

RevisionNext ==
    \/ analysis = NoReport /\ AnalyzeContent
    \/ InsertKeyword

RevisionSpec == RevisionInit /\ [][RevisionNext]_vars

-----------------------------------------------------------------------------
(***************************************************************************)
(* The request pipeline of ContentOrchestrator.  The language model, the   *)
(* web search and the image service are outside the program: a call to     *)
(* one of them returns one of a few values or raises.  A dict is a         *)
(* function on its keys; a JSON scalar is kept as its JSON text ("true",   *)
(* "false", "null", a quoted string), which is what decides its truth      *)
(* value in an if.                                                         *)
(***************************************************************************)
MaxRequests == 2

\* 'Write a LinkedIn post on research', 'hello'
Queries ==
    { <<"W","r","i","t","e"," ","a"," ","L","i","n","k","e","d","I","n"," ","p","o","s","t"," ","o","n"," ","r","e","s","e","a","r","c","h">>,
      <<"h","e","l","l","o">> }

\* Queries for the fallback of route_query, one or more for each branch and for
\* each pair of branches whose word lists meet in one query:
\*   'Write a LinkedIn post on research'
\*   'hello'
\*   'LinkedIn article'
\*   'Blog about cats'
\*   'A picture for my post'
\*   'Find a graphic'
\*   'Analyze trends'
\*   'LinkedIn visual'
\*   'RESEARCH'
\*   'linkedin'
RoutingQueries ==
    { <<"W","r","i","t","e"," ","a"," ","L","i","n","k","e","d","I","n"," ","p","o","s","t"," ","o","n"," ","r","e","s","e","a","r","c","h">>,
      <<"h","e","l","l","o">>,
      <<"L","i","n","k","e","d","I","n"," ","a","r","t","i","c","l","e">>,
      <<"B","l","o","g"," ","a","b","o","u","t"," ","c","a","t","s">>,
      <<"A"," ","p","i","c","t","u","r","e"," ","f","o","r"," ","m","y"," ","p","o","s","t">>,
      <<"F","i","n","d"," ","a"," ","g","r","a","p","h","i","c">>,
      <<"A","n","a","l","y","z","e"," ","t","r","e","n","d","s">>,
      <<"L","i","n","k","e","d","I","n"," ","v","i","s","u","a","l">>,
      <<"R","E","S","E","A","R","C","H">>,
      <<"l","i","n","k","e","d","i","n">> }

\* user_preferences: none, or both optional analyses switched off
Preferences ==
    {EmptyDict, [seo_analysis |-> "false", engagement_analysis |-> "false"]}

\* dict.get(key, default)
Get(d, key, default) == IF key \in DOMAIN d THEN d[key] ELSE default

\* d[key] = value
Put(d, key, value) ==
    [k \in DOMAIN d \cup {key} |-> IF k = key THEN value ELSE d[k]]

\* the truth value of a JSON scalar or an empty container in an if
Truthy(v) == v \notin {"false", "null", "0", "\"\"", "[]", "{}"}

\* the value json.loads returns for a JSON object, and for a JSON array
Object(members) == [json |-> "object", members |-> members]
JsonArray == [json |-> "array"]

\* the keyword lists of the fallback of route_query
content_request_words == << <<"b","l","o","g">>, <<"a","r","t","i","c","l","e">>, <<"w","r","i","t","e">>, <<"p","o","s","t">> >>
image_request_words == << <<"i","m","a","g","e">>, <<"v","i","s","u","a","l">>, <<"g","r","a","p","h","i","c">>, <<"p","i","c","t","u","r","e">> >>
research_request_words == << <<"r","e","s","e","a","r","c","h">>, <<"f","i","n","d">>, <<"s","e","a","r","c","h">>, <<"a","n","a","l","y","z","e">> >>

\* the except branch of route_query looking for an image request first
FallbackRouting_image_first(user_query) ==
    LET query_lower == lower(user_query)
    IN  IF ContainsAny(query_lower, image_request_words)
        THEN [primary_agent |-> "image_agent",
              secondary_agents |-> <<>>,
              requires_research |-> "false",
              content_type |-> "image",
              reasoning |-> "Detected image generation request"]
        ELSE IF ContainsAny(query_lower, content_request_words)
        THEN IF Contains(query_lower, <<"l","i","n","k","e","d","i","n">>)
             THEN [primary_agent |-> "linkedin_agent",
                   secondary_agents |-> <<>>,
                   requires_research |->
                       IF Contains(query_lower, <<"r","e","s","e","a","r","c","h">>) THEN "true" ELSE "false",
                   content_type |-> "linkedin",
                   reasoning |-> "Detected LinkedIn content request"]
             ELSE [primary_agent |-> "blog_agent",
                   secondary_agents |-> <<>>,
                   requires_research |-> "true",
                   content_type |-> "blog",
                   reasoning |-> "Detected blog content request"]
        ELSE IF ContainsAny(query_lower, research_request_words)
        THEN [primary_agent |-> "research_agent",
              secondary_agents |-> <<>>,
              requires_research |-> "true",
              content_type |-> "research",
              reasoning |-> "Detected research request"]
        ELSE [primary_agent |-> "blog_agent",
              secondary_agents |-> <<>>,
              requires_research |-> "true",
              content_type |-> "general",
              reasoning |-> "Default routing"]

\* the except branch of route_query: routing by the words of the query
FallbackRouting(user_query) ==
    LET query_lower == lower(user_query)
    IN  IF ContainsAny(query_lower, content_request_words)
        THEN IF Contains(query_lower, <<"l","i","n","k","e","d","i","n">>)
             THEN [primary_agent |-> "linkedin_agent",
                   secondary_agents |-> <<>>,
                   requires_research |->
                       IF Contains(query_lower, <<"r","e","s","e","a","r","c","h">>) THEN "true" ELSE "false",
                   content_type |-> "linkedin",
                   reasoning |-> "Detected LinkedIn content request"]
             ELSE [primary_agent |-> "blog_agent",
                   secondary_agents |-> <<>>,
                   requires_research |-> "true",
                   content_type |-> "blog",
                   reasoning |-> "Detected blog content request"]
        ELSE IF ContainsAny(query_lower, image_request_words)
        THEN [primary_agent |-> "image_agent",
              secondary_agents |-> <<>>,
              requires_research |-> "false",
              content_type |-> "image",
              reasoning |-> "Detected image generation request"]
        ELSE IF ContainsAny(query_lower, research_request_words)
        THEN [primary_agent |-> "research_agent",
              secondary_agents |-> <<>>,
              requires_research |-> "true",
              content_type |-> "research",
              reasoning |-> "Detected research request"]
        ELSE [primary_agent |-> "blog_agent",
              secondary_agents |-> <<>>,
              requires_research |-> "true",
              content_type |-> "general",
              reasoning |-> "Default routing"]

\* What the model's answer parses to, when it parses: well-formed routings, one
\* with a quoted "no" for requires_research, one naming an agent that does not
\* exist, an object without any key, and an array.
ParsedRoutings ==
    { Object([primary_agent |-> "blog_agent", secondary_agents |-> <<"image_agent">>,
              requires_research |-> "true"]),
      Object([primary_agent |-> "blog_agent", secondary_agents |-> <<"research_agent", "image_agent">>,
              requires_research |-> "false"]),
      Object([primary_agent |-> "linkedin_agent", secondary_agents |-> <<"image_agent">>,
              requires_research |-> "true"]),
      Object([primary_agent |-> "image_agent", requires_research |-> "\"no\""]),
      Object([primary_agent |-> "research_agent", secondary_agents |-> <<>>,
              requires_research |-> "false"]),
      Object([primary_agent |-> "video_agent", secondary_agents |-> <<"image_agent">>,
              requires_research |-> "false"]),
      Object(EmptyDict),
      JsonArray }

\* chain.invoke in route_query raises, or its answer does not parse, or it
\* parses to a value
RouterOutcomes ==
    {[kind |-> "raise"], [kind |-> "unparsable"]}
    \cup {[kind |-> "parsed", value |-> r] : r \in ParsedRoutings}

\* conduct_research: the search succeeds or fails (search_web then returns []),
\* and chain.invoke returns a summary, possibly empty, or raises
ResearchOutcomes ==
    {[kind |-> "raise"]}
    \cup {[kind |-> "return", summary |-> x, sources |-> y] :
             x \in {"", "facts"}, y \in {<<>>, <<"hit">>}}

\* a generator with its optional analysis: both return, or one of them raises
GeneratorOutcomes == {"return", "generator raises", "analysis raises"}

\* generate_image: an image, the error value of its except branch, or an
\* exception of generate_image_prompt
ImageOutcomes == {"return", "error value", "raise"}

\* the last n entries of a list: xs[-n:]
LastN(xs, n) == SubSeq(xs, max2(1, Len(xs) - n + 1), Len(xs))

\* conversation_memory.add_message(role, content)
add_message(mem, role, text) == Append(mem, [role |-> role, content |-> text])

\* add_documents replacing the stored entry of an id that is added again
RECURSIVE add_documents_upsert(_, _, _, _)
add_documents_upsert(st, documents, metadatas, ids) ==
    IF documents = <<>> \/ metadatas = <<>> \/ ids = <<>> THEN st
    ELSE LET entry == [id |-> ids[1], document |-> documents[1], metadata |-> metadatas[1]]
             type == Get(metadatas[1], "type", "null")
             Others(entries) == SelectSeq(entries, LAMBDA e : e.id # ids[1])
         IN  add_documents_upsert(
                 [documents |-> Append(Others(st.documents), entry),
                  brand_voice_docs |->
                      IF type = "brand_voice" THEN Append(Others(st.brand_voice_docs), entry)
                      ELSE Others(st.brand_voice_docs),
                  research_docs |->
                      IF type = "research" THEN Append(Others(st.research_docs), entry)
                      ELSE Others(st.research_docs)],
                 Tail(documents), Tail(metadatas), Tail(ids))

\* VectorStore.add_documents: one entry for each position of the shortest list
RECURSIVE add_documents(_, _, _, _)
add_documents(st, documents, metadatas, ids) ==
    IF documents = <<>> \/ metadatas = <<>> \/ ids = <<>> THEN st
    ELSE LET entry == [id |-> ids[1], document |-> documents[1], metadata |-> metadatas[1]]
             type == Get(metadatas[1], "type", "null")
         IN  add_documents(
                 [documents |-> Append(st.documents, entry),
                  brand_voice_docs |->
                      IF type = "brand_voice" THEN Append(st.brand_voice_docs, entry)
                      ELSE st.brand_voice_docs,
                  research_docs |->
                      IF type = "research" THEN Append(st.research_docs, entry)
                      ELSE st.research_docs],
                 Tail(documents), Tail(metadatas), Tail(ids))

\* VectorStore.store_research
store_research(st, topic, text, source, doc_id) ==
    add_documents(st, <<text>>,
                  << [type |-> "research", topic |-> topic, source |-> source] >>,
                  <<doc_id>>)

\* a call of an agent and how it ended, as entries of calls
Call(fn, args) == [fn |-> fn, ev |-> "call", args |-> args]
Return(fn) == [fn |-> fn, ev |-> "return"]
Raise(fn) == [fn |-> fn, ev |-> "raise"]

\* route_query returns: from its try block when the answer parsed, from its
\* except block when it did not
Answer(fn, response) == [fn |-> fn, ev |-> "return", response |-> response]

\* the exception leaves process_request
Raised == [raised |-> TRUE]

\* _create_result_summary: the parts that ' | '.join puts together
_create_result_summary(res) ==
    LET parts ==
            (IF "research" \in DOMAIN res.outputs
                THEN <<"Completed research on the topic">> ELSE <<>>)
            \o (IF "blog" \in DOMAIN res.outputs THEN <<"Generated blog post">> ELSE <<>>)
            \o (IF "linkedin" \in DOMAIN res.outputs THEN <<"Created LinkedIn post">> ELSE <<>>)
            \o (IF "image" \in DOMAIN res.outputs THEN <<"Generated image">> ELSE <<>>)
    IN  IF parts = <<>> THEN <<"Processed request">> ELSE parts

\* The requests served so far: the user messages of the conversation memory.
UserTurns == Cardinality({i \in 1..Len(memory) : memory[i].role = "user"})

\* process_request is called: the query goes to the conversation memory.
ProcessRequestOf(queries) ==
    /\ pc = "idle"
    /\ UserTurns < MaxRequests
    /\ \E q \in queries, p \in Preferences :
          /\ query' = q
          /\ preferences' = p
    /\ memory' = add_message(memory, "user", query')
    /\ routing' = NoRouting
    /\ research_data' = Unbound
    /\ outputs' = EmptyDict
    /\ calls' = <<>>
    /\ result' = NoResult
    /\ pc' = "route"
    /\ UNCHANGED <<store, analyzerVars>>

ProcessRequest == ProcessRequestOf(Queries)

\* self.router.route_query(user_query)
RouteQuery ==
    /\ pc = "route"
    /\ \E out \in RouterOutcomes :
          LET call == Call("route_query",
                           [user_query |-> query,
                            conversation_context |-> LastN(memory, 2)])
          IN  IF out.kind = "raise"
              THEN /\ calls' = calls \o <<call, Raise("route_query")>>
                   /\ result' = Raised
                   /\ pc' = "idle"
                   /\ UNCHANGED routing
              ELSE /\ calls' = calls \o <<call, Answer("route_query", out.kind)>>
                   /\ routing' = IF out.kind = "parsed" THEN out.value
                                 ELSE Object(FallbackRouting(query))
                   /\ pc' = "research"
                   /\ UNCHANGED result
    /\ UNCHANGED <<query, preferences, research_data, outputs, memory, store, analyzerVars>>

\* ConductResearch binding research_data only when research runs, as an attribute
\* that keeps its value would
ConductResearchKeepingData ==
    /\ pc = "research"
    /\ IF routing.json # "object"
       THEN /\ result' = Raised
            /\ pc' = "idle"
            /\ UNCHANGED <<research_data, outputs, calls, store>>
       ELSE IF Truthy(Get(routing.members, "requires_research", "false"))
       THEN \E out \in ResearchOutcomes :
               LET call == Call("conduct_research", [topic |-> query])
               IN  IF out.kind = "raise"
                   THEN /\ calls' = calls \o <<call, Raise("conduct_research")>>
                        /\ result' = Raised
                        /\ pc' = "idle"
                        /\ UNCHANGED <<research_data, outputs, store>>
                   ELSE /\ calls' = calls \o <<call, Return("conduct_research")>>
                        /\ outputs' = Put(outputs, "research",
                                          [topic |-> query, summary |-> out.summary,
                                           sources |-> out.sources])
                        /\ research_data' = out.summary
                        /\ store' = store_research(store, query, out.summary, "serper_api",
                                                   <<"research_", Len(store.documents) + 1>>)
                        /\ pc' = "primary"
                        /\ UNCHANGED result
       ELSE /\ pc' = "primary"
            /\ UNCHANGED <<research_data, outputs, calls, result, store>>
    /\ UNCHANGED <<query, preferences, routing, memory, analyzerVars>>

\* _execute_workflow, step 1: research if the routing asks for it
ConductResearch ==
    /\ pc = "research"
    /\ IF routing.json # "object"
       THEN \* routing.get: AttributeError
            /\ result' = Raised
            /\ pc' = "idle"
            /\ UNCHANGED <<research_data, outputs, calls, store>>
       ELSE IF Truthy(Get(routing.members, "requires_research", "false"))
       THEN \E out \in ResearchOutcomes :
               LET call == Call("conduct_research", [topic |-> query])
               IN  IF out.kind = "raise"
                   THEN /\ calls' = calls \o <<call, Raise("conduct_research")>>
                        /\ result' = Raised
                        /\ pc' = "idle"
                        /\ research_data' = ""
                        /\ UNCHANGED <<outputs, store>>
                   ELSE /\ calls' = calls \o <<call, Return("conduct_research")>>
                        /\ outputs' = Put(outputs, "research",
                                          [topic |-> query, summary |-> out.summary,
                                           sources |-> out.sources])
                        /\ research_data' = out.summary
                        /\ store' = store_research(store, query, out.summary, "serper_api",
                                                   <<"research_", Len(store.documents) + 1>>)
                        /\ pc' = "primary"
                        /\ UNCHANGED result
       ELSE /\ research_data' = ""
            /\ pc' = "primary"
            /\ UNCHANGED <<outputs, calls, result, store>>
    /\ UNCHANGED <<query, preferences, routing, memory, analyzerVars>>

\* a step of _execute_workflow that made the calls cs and goes on, and one whose
\* last call raised
Advance(cs, outs, next) ==
    /\ calls' = calls \o cs
    /\ outputs' = outs
    /\ pc' = next
    /\ UNCHANGED result

Abort(cs) ==
    /\ calls' = calls \o cs
    /\ result' = Raised
    /\ pc' = "idle"
    /\ UNCHANGED outputs

\* what a helper of the orchestrator did: the calls it made, and its value unless
\* one of them raised
Completed(cs, value) == [cs |-> cs, raised |-> FALSE, value |-> value]
Failed(cs) == [cs |-> cs, raised |-> TRUE]

\* _create_blog_content(topic, research_data, preferences)
_create_blog_content(topic, data, prefs, out) ==
    LET kws == Get(prefs, "keywords", <<topic>>)
        write == Call("write_blog_post",
                      [topic |-> topic, keywords |-> kws,
                       research_data |-> data,
                       target_length |-> Get(prefs, "target_length", "1500-2000 words")])
        optimize == Call("optimize_for_seo", [content |-> "post", keywords |-> kws])
        blog_result == [content |-> "post", outline |-> "outline",
                        metadata |-> [topic |-> topic, keywords |-> kws]]
    IN  IF out = "generator raises"
        THEN Failed(<<write, Raise("write_blog_post")>>)
        ELSE IF ~Truthy(Get(prefs, "seo_analysis", "true"))
        THEN Completed(<<write, Return("write_blog_post")>>, blog_result)
        ELSE IF out = "analysis raises"
        THEN Failed(<<write, Return("write_blog_post"), optimize, Raise("optimize_for_seo")>>)
        ELSE Completed(<<write, Return("write_blog_post"), optimize, Return("optimize_for_seo")>>,
                       Put(blog_result, "seo_analysis", "analysis"))

\* _execute_workflow: result["outputs"]["blog"] = self._create_blog_content(...)
CreateBlogContent ==
    \E out \in GeneratorOutcomes :
        LET blog == _create_blog_content(query, research_data, preferences, out)
        IN  IF blog.raised THEN Abort(blog.cs)
            ELSE Advance(blog.cs, Put(outputs, "blog", blog.value), "secondary")

\* _create_linkedin_content(topic, research_data, preferences)
_create_linkedin_content(topic, data, prefs, out) ==
    LET generate == Call("generate_linkedin_post",
                         [topic |-> topic,
                          post_type |-> Get(prefs, "post_type", "thought_leadership"),
                          research_data |-> data,
                          include_hashtags |-> Get(prefs, "include_hashtags", "true")])
        optimize == Call("optimize_engagement", [post_content |-> "post"])
        linkedin_result == [content |-> "post", post_type |-> Get(prefs, "post_type", "thought_leadership")]
    IN  IF out = "generator raises"
        THEN Failed(<<generate, Raise("generate_linkedin_post")>>)
        ELSE IF ~Truthy(Get(prefs, "engagement_analysis", "true"))
        THEN Completed(<<generate, Return("generate_linkedin_post")>>, linkedin_result)
        ELSE IF out = "analysis raises"
        THEN Failed(<<generate, Return("generate_linkedin_post"),
                      optimize, Raise("optimize_engagement")>>)
        ELSE Completed(<<generate, Return("generate_linkedin_post"),
                         optimize, Return("optimize_engagement")>>,
                       Put(linkedin_result, "engagement_analysis", "analysis"))

\* _execute_workflow: result["outputs"]["linkedin"] = self._create_linkedin_content(...)
CreateLinkedinContent ==
    \E out \in GeneratorOutcomes :
        LET linkedin == _create_linkedin_content(query, research_data, preferences, out)
        IN  IF linkedin.raised THEN Abort(linkedin.cs)
            ELSE Advance(linkedin.cs, Put(outputs, "linkedin", linkedin.value), "secondary")

\* what generate_image returns: the image, or the error value of its except branch
ImageResult(out) ==
    IF out = "return" THEN [image_url |-> "url", original_prompt |-> "prompt"]
    ELSE [error |-> "error", original_prompt |-> "prompt"]

\* _create_image_content; generate_image raises ValueError without a context
CreateImageContent ==
    \E out \in ImageOutcomes :
        LET generate == Call("generate_image",
                             [content_context |-> query,
                              image_purpose |-> Get(preferences, "purpose", "general")])
        IN  IF out = "raise" \/ query = <<>>
            THEN Abort(<<generate, Raise("generate_image")>>)
            ELSE Advance(<<generate, Return("generate_image")>>,
                         Put(outputs, "image", ImageResult(out)), "secondary")

\* _execute_workflow, step 2: the primary agent
ExecutePrimary ==
    /\ pc = "primary"
    /\ LET primary_agent == Get(routing.members, "primary_agent", "null")
       IN  CASE primary_agent = "blog_agent" -> CreateBlogContent
             [] primary_agent = "linkedin_agent" -> CreateLinkedinContent
             [] primary_agent = "image_agent" -> CreateImageContent
             [] OTHER -> Advance(<<>>, outputs, "secondary")
    /\ UNCHANGED <<query, preferences, routing, research_data, memory, store, analyzerVars>>

\* ExecuteSecondary making the image for every image_agent among the secondary
\* agents, whether or not a blog post was written
ExecuteSecondaryWithoutBlog ==
    /\ pc = "secondary"
    /\ LET secondary_agents == Get(routing.members, "secondary_agents", <<>>)
           steps == SelectSeq(secondary_agents, LAMBDA a : a = "image_agent")
       IN  \E outs \in [1..Len(steps) -> ImageOutcomes] :
              LET raising == {i \in 1..Len(steps) : outs[i] = "raise"}
                  last == IF raising = {} THEN Len(steps) ELSE Min(raising)
                  create == Call("create_blog_header_image",
                                 [blog_title |-> query, blog_summary |-> "post"])
                  RECURSIVE Made(_)
                  Made(i) ==
                      IF i = 0 THEN <<>>
                      ELSE Made(i - 1)
                           \o <<create, IF outs[i] = "raise"
                                        THEN Raise("create_blog_header_image")
                                        ELSE Return("create_blog_header_image")>>
              IN  IF raising # {} THEN Abort(Made(last))
                  ELSE Advance(Made(last),
                               IF last = 0 THEN outputs
                               ELSE Put(outputs, "blog_image", ImageResult(outs[last])),
                               "summary")
    /\ UNCHANGED <<query, preferences, routing, research_data, memory, store, analyzerVars>>

\* _execute_workflow, step 3: a header image for the blog post, once for each
\* image_agent among the secondary agents
ExecuteSecondary ==
    /\ pc = "secondary"
    /\ LET secondary_agents == Get(routing.members, "secondary_agents", <<>>)
           steps == IF "blog" \in DOMAIN outputs
                    THEN SelectSeq(secondary_agents, LAMBDA a : a = "image_agent")
                    ELSE <<>>
       IN  \E outs \in [1..Len(steps) -> ImageOutcomes] :
              LET raising == {i \in 1..Len(steps) : outs[i] = "raise"}
                  last == IF raising = {} THEN Len(steps) ELSE Min(raising)
                  create == Call("create_blog_header_image",
                                 [blog_title |-> query, blog_summary |-> outputs["blog"].content])
                  RECURSIVE Made(_)
                  Made(i) ==
                      IF i = 0 THEN <<>>
                      ELSE Made(i - 1)
                           \o <<create, IF outs[i] = "raise"
                                        THEN Raise("create_blog_header_image")
                                        ELSE Return("create_blog_header_image")>>
              IN  IF raising # {} THEN Abort(Made(last))
                  ELSE Advance(Made(last),
                               IF last = 0 THEN outputs
                               ELSE Put(outputs, "blog_image", ImageResult(outs[last])),
                               "summary")
    /\ UNCHANGED <<query, preferences, routing, research_data, memory, store, analyzerVars>>

\* ReturnResult keeping the summary out of the conversation memory when no
\* output was produced
ReturnResultSilent ==
    /\ pc = "summary"
    /\ result' = [routing |-> routing, outputs |-> outputs]
    /\ memory' = IF outputs = EmptyDict THEN memory
                 ELSE add_message(memory, "assistant", _create_result_summary(result'))
    /\ pc' = "idle"
    /\ UNCHANGED <<query, preferences, routing, research_data, outputs, calls, store,
                   analyzerVars>>

\* process_request: the summary goes to the conversation memory, the result to
\* the caller
ReturnResult ==
    /\ pc = "summary"
    /\ result' = [routing |-> routing, outputs |-> outputs]
    /\ memory' = add_message(memory, "assistant", _create_result_summary(result'))
    /\ pc' = "idle"
    /\ UNCHANGED <<query, preferences, routing, research_data, outputs, calls, store,
                   analyzerVars>>

\* The analyzers are not called while the pipeline is looked at.
AnalyzersIdle ==
    /\ content = <<>>
    /\ content_type = "general"
    /\ keywords = <<>>
    /\ optimizer = NewOptimizer
    /\ report = NoReport
    /\ analysis = NoReport
    /\ seen = {}

PipelineInit == AnalyzersIdle /\ PipelineIdle

PipelineNext ==
    \/ ProcessRequest
    \/ RouteQuery
    \/ ConductResearch
    \/ ExecutePrimary
    \/ ExecuteSecondary
    \/ ReturnResult

PipelineSpec == PipelineInit /\ [][PipelineNext]_vars

\* No helper was called.
Skipped == [cs |-> <<>>, raised |-> FALSE]

\* a call of the image agent from create_content_campaign
ImageCall(fn, args, out) ==
    IF out = "raise" THEN Failed(<<Call(fn, args), Raise(fn)>>)
    ELSE Completed(<<Call(fn, args), Return(fn)>>, ImageResult(out))

\* the images of create_content_campaign with a blog header whether or not a
\* blog post was asked for
CampaignImagesWithHeader(topic, data, include_blog, include_linkedin, h, v) ==
    LET header == ImageCall("create_blog_header_image",
                            [blog_title |-> topic, blog_summary |-> data], h)
        visual == IF include_linkedin /\ ~header.raised
                  THEN ImageCall("generate_social_media_visuals",
                                 [content_summary |-> data, platform |-> "linkedin"], v)
                  ELSE Skipped
    IN  IF header.raised \/ visual.raised THEN Failed(header.cs \o visual.cs)
        ELSE Completed(header.cs \o visual.cs,
                       LET images == Put(EmptyDict, "blog_header", header.value)
                       IN  IF include_linkedin THEN Put(images, "linkedin_visual", visual.value)
                           ELSE images)

\* create_content_campaign: the block under if include_images.  data is the
\* research summary, which [:500] leaves as it is.
CampaignImages(topic, data, include_blog, include_linkedin, h, v) ==
    LET header == IF include_blog
                  THEN ImageCall("create_blog_header_image",
                                 [blog_title |-> topic, blog_summary |-> data], h)
                  ELSE Skipped
        visual == IF include_linkedin /\ ~header.raised
                  THEN ImageCall("generate_social_media_visuals",
                                 [content_summary |-> data, platform |-> "linkedin"], v)
                  ELSE Skipped
    IN  IF header.raised \/ visual.raised THEN Failed(header.cs \o visual.cs)
        ELSE Completed(header.cs \o visual.cs,
                       LET images == IF include_blog
                                     THEN Put(EmptyDict, "blog_header", header.value)
                                     ELSE EmptyDict
                       IN  IF include_linkedin THEN Put(images, "linkedin_visual", visual.value)
                           ELSE images)

\* orchestrator.create_content_campaign(topic, include_blog, include_linkedin,
\* include_images, preferences), from its call to its return or exception
CreateContentCampaign ==
    /\ pc = "idle"
    /\ \E topic \in Queries, prefs \in Preferences,
          include_blog \in BOOLEAN, include_linkedin \in BOOLEAN, include_images \in BOOLEAN,
          r \in ResearchOutcomes :
       \E b \in IF include_blog THEN GeneratorOutcomes ELSE {"return"},
          l \in IF include_linkedin THEN GeneratorOutcomes ELSE {"return"},
          h \in IF include_images /\ include_blog THEN ImageOutcomes ELSE {"return"},
          v \in IF include_images /\ include_linkedin THEN ImageOutcomes ELSE {"return"} :
          LET begin == << Call("create_content_campaign",
                               [topic |-> topic, include_blog |-> include_blog,
                                include_linkedin |-> include_linkedin,
                                include_images |-> include_images, preferences |-> prefs]),
                          Call("conduct_research", [topic |-> topic]) >>
          IN  IF r.kind = "raise"
              THEN /\ calls' = Append(begin, Raise("conduct_research"))
                   /\ result' = Raised
              ELSE LET blog == IF include_blog
                               THEN _create_blog_content(topic, r.summary, prefs, b)
                               ELSE Skipped
                       linkedin == IF include_linkedin /\ ~blog.raised
                                   THEN _create_linkedin_content(topic, r.summary, prefs, l)
                                   ELSE Skipped
                       images == IF include_images /\ ~blog.raised /\ ~linkedin.raised
                                 THEN CampaignImages(topic, r.summary, include_blog,
                                                     include_linkedin, h, v)
                                 ELSE Skipped
                       cs == Append(begin, Return("conduct_research"))
                             \o blog.cs \o linkedin.cs \o images.cs
                   IN  /\ calls' = cs
                       /\ result' =
                             IF blog.raised \/ linkedin.raised \/ images.raised THEN Raised
                             ELSE LET with_blog ==
                                          IF include_blog THEN Put(EmptyDict, "blog", blog.value)
                                          ELSE EmptyDict
                                      with_linkedin ==
                                          IF include_linkedin
                                          THEN Put(with_blog, "linkedin", linkedin.value)
                                          ELSE with_blog
                                  IN  [topic |-> topic,
                                       campaign_outputs |->
                                           IF include_images
                                           THEN Put(with_linkedin, "images", images.value)
                                           ELSE with_linkedin,
                                       research |-> [topic |-> topic, summary |-> r.summary,
                                                     sources |-> r.sources]]
    /\ UNCHANGED <<pc, query, preferences, routing, research_data, outputs, memory, store,
                   analyzerVars>>

\* The orchestrator before a campaign: nothing served yet, or one request served
\* that stored its research and left its two messages.
CampaignInit ==
    /\ AnalyzersIdle
    /\ pc = "idle"
    /\ query = <<>>
    /\ preferences = EmptyDict
    /\ routing = NoRouting
    /\ research_data = Unbound
    /\ outputs = EmptyDict
    /\ calls = <<>>
    /\ result = NoResult
    /\ \E q \in Queries :
          \/ memory = <<>> /\ store = EmptyStore
          \/ /\ memory = add_message(add_message(<<>>, "user", q), "assistant",
                                     <<"Completed research on the topic", "Generated blog post">>)
             /\ store = store_research(EmptyStore, q, "facts", "serper_api", <<"research_", 1>>)

CampaignNext == CreateContentCampaign

CampaignSpec == CampaignInit /\ [][CampaignNext]_vars

\* The router alone: requests over RoutingQueries, followed up to the return of
\* route_query.
RoutingNext ==
    \/ ProcessRequestOf(RoutingQueries)
    \/ RouteQuery

RoutingSpec == PipelineInit /\ [][RoutingNext]_vars

-----------------------------------------------------------------------------
(***************************************************************************)
(* The document store on its own: documents are added and searched.        *)
(***************************************************************************)
MaxDocs == 3
MaxResults == 2

\* str.split(): the maximal runs of characters that are not whitespace
SplitWords(s) ==
    LET starts == {i \in 1..Len(s) :
                      s[i] \notin SpaceChars /\ (i = 1 \/ s[i - 1] \in SpaceChars)}
        EndOf(i) == Min({j \in i..Len(s) : j = Len(s) \/ s[j + 1] \in SpaceChars})
        RECURSIVE Words(_)
        Words(from) ==
            IF \A i \in starts : i < from THEN <<>>
            ELSE LET i == Min({k \in starts : k >= from})
                 IN  <<SubSeq(s, i, EndOf(i))>> \o Words(EndOf(i) + 1)
    IN  Words(1)

\* xs[:n]
Slice(xs, n) ==
    IF n >= 0 THEN SubSeq(xs, 1, min2(n, Len(xs)))
    ELSE SubSeq(xs, 1, max2(0, Len(xs) + n))

\* filter_dict=None
None == [py |-> "None"]

\* [entry[field] for entry in entries]
Column(entries, field) ==
    SubSeq([i \in 1..Len(entries) |-> entries[i][field]], 1, Len(entries))

\* VectorStore.search with the ties of the sort in reverse insertion order
search_reversed_ties(st, q, n_results, filter_dict) ==
    LET doc_type == IF filter_dict = None THEN "null" ELSE Get(filter_dict, "type", "null")
        filtered_docs ==
            IF filter_dict = None \/ DOMAIN filter_dict = {} THEN st.documents
            ELSE IF doc_type = "brand_voice" THEN st.brand_voice_docs
            ELSE IF doc_type = "research" THEN st.research_docs
            ELSE st.documents
        words == SplitWords(lower(q))
        score(entry) ==
            Cardinality({i \in 1..Len(words) : Contains(lower(entry.document), words[i])})
        Reverse(xs) == SubSeq([i \in 1..Len(xs) |-> xs[Len(xs) + 1 - i]], 1, Len(xs))
        RECURSIVE Sorted(_)
        Sorted(sc) ==
            IF sc = 0 THEN <<>>
            ELSE Reverse(SelectSeq(filtered_docs, LAMBDA e : score(e) = sc)) \o Sorted(sc - 1)
        top_docs == Slice(Sorted(Len(words)), n_results)
    IN  [documents |-> <<Column(top_docs, "document")>>,
         metadatas |-> <<Column(top_docs, "metadata")>>,
         ids |-> <<Column(top_docs, "id")>>]

\* VectorStore.search.  list.sort is stable, also with reverse=True: the entries
\* come by falling score, those of one score in the order of filtered_docs.
search(st, q, n_results, filter_dict) ==
    LET doc_type == IF filter_dict = None THEN "null" ELSE Get(filter_dict, "type", "null")
        filtered_docs ==
            IF filter_dict = None \/ DOMAIN filter_dict = {} THEN st.documents
            ELSE IF doc_type = "brand_voice" THEN st.brand_voice_docs
            ELSE IF doc_type = "research" THEN st.research_docs
            ELSE st.documents
        words == SplitWords(lower(q))
        score(entry) ==
            Cardinality({i \in 1..Len(words) : Contains(lower(entry.document), words[i])})
        RECURSIVE Sorted(_)
        Sorted(sc) ==
            IF sc = 0 THEN <<>>
            ELSE SelectSeq(filtered_docs, LAMBDA e : score(e) = sc) \o Sorted(sc - 1)
        top_docs == Slice(Sorted(Len(words)), n_results)
    IN  [documents |-> <<Column(top_docs, "document")>>,
         metadatas |-> <<Column(top_docs, "metadata")>>,
         ids |-> <<Column(top_docs, "id")>>]

\* VectorStore.add_brand_voice_example
add_brand_voice_example(st, text, doc_id) ==
    add_documents(st, <<text>>, << [type |-> "brand_voice"] >>, <<doc_id>>)

\* The documents: 'AI and SEO', 'seo tips', 'cats'
Documents ==
    << <<"A","I"," ","a","n","d"," ","S","E","O">>, <<"s","e","o"," ","t","i","p","s">>, <<"c","a","t","s">> >>

\* The lists add_documents is called with; their lengths differ.
DocumentLists == { <<Documents[2]>>, <<Documents[2], Documents[1]>> }

MetadataLists ==
    { << [type |-> "note"] >>,
      << [type |-> "brand_voice"], [type |-> "research"] >> }

IdLists == { <<"d1">>, <<"d1", "d1", "d2">> }

\* The queries: 'ai SEO', 'a  a' (one word twice, two spaces), ''
SearchQueries ==
    { <<"a","i"," ","S","E","O">>, <<"a"," "," ","a">>, <<>> }

\* filter_dict: None, a type with a category, a type without one
Filters ==
    {None, [type |-> "brand_voice"], [type |-> "research"], [type |-> "note"]}

\* vector_store.add_documents(documents, metadatas, ids)
AddDocuments ==
    /\ \E documents \in DocumentLists, metadatas \in MetadataLists, ids \in IdLists :
          /\ Len(store.documents) + Min({Len(documents), Len(metadatas), Len(ids)}) <= MaxDocs
          /\ store' = add_documents(store, documents, metadatas, ids)
          /\ calls' = << Call("add_documents",
                              [documents |-> documents, metadatas |-> metadatas, ids |-> ids]) >>
    /\ result' = NoResult
    /\ UNCHANGED <<pc, query, preferences, routing, research_data, outputs, memory, analyzerVars>>

\* vector_store.add_brand_voice_example(content, doc_id)
AddBrandVoiceExample ==
    /\ Len(store.documents) < MaxDocs
    /\ store' = add_brand_voice_example(store, Documents[3], "d1")
    /\ calls' = << Call("add_brand_voice_example",
                        [content |-> Documents[3], doc_id |-> "d1"]) >>
    /\ result' = NoResult
    /\ UNCHANGED <<pc, query, preferences, routing, research_data, outputs, memory, analyzerVars>>

\* vector_store.store_research(topic, content, source, doc_id)
StoreResearch ==
    /\ Len(store.documents) < MaxDocs
    /\ store' = store_research(store, Documents[3], Documents[1], "serper_api", "d1")
    /\ calls' = << Call("store_research",
                        [topic |-> Documents[3], content |-> Documents[1],
                         source |-> "serper_api", doc_id |-> "d1"]) >>
    /\ result' = NoResult
    /\ UNCHANGED <<pc, query, preferences, routing, research_data, outputs, memory, analyzerVars>>

\* vector_store.search(query, n_results, filter_dict)
Search ==
    /\ \E q \in SearchQueries, n_results \in 0..MaxResults, filter_dict \in Filters :
          /\ result' = search(store, q, n_results, filter_dict)
          /\ calls' = << Call("search",
                              [query |-> q, n_results |-> n_results,
                               filter_dict |-> filter_dict]) >>
    /\ UNCHANGED <<pc, query, preferences, routing, research_data, outputs, memory, store,
                   analyzerVars>>

StoreNext ==
    \/ AddDocuments
    \/ AddBrandVoiceExample
    \/ StoreResearch
    \/ Search

StoreSpec == PipelineInit /\ [][StoreNext]_vars

-----------------------------------------------------------------------------
(* The properties of the reports.                                          *)

Scored == report # NoReport
Analysed == analysis # NoReport

Values(d) == [i \in 1..Len(d) |-> d[i].value]
KeySet(d) == {d[i].key : i \in 1..Len(d)}

RECURSIVE Sum(_)
Sum(xs) == IF Len(xs) = 0 THEN 0 ELSE xs[1] + Sum(Tail(xs))

\* C1: every value of dimension_scores lies in [0, 10] (0..100 tenths) for every
\* text and content type, and seo_score is an integer in [0, 100] for every text
\* and keyword list, also when the penalties sum to more than 100.
C1_ScoresInRange ==
    /\ Scored => \A i \in 1..Len(report.dimension_scores) :
                    report.dimension_scores[i].value \in 0..100
    /\ Analysed => analysis.seo_score \in 0..100

\* three missing keywords on a text under 500 words: the penalties sum to 115
C1_Witness ==
    /\ Analysed
    /\ analysis.word_count < 500
    /\ Len(analysis.keyword_analysis) = 3
    /\ \A i \in 1..3 : analysis.keyword_analysis[i].value.status = "missing"
    /\ analysis.seo_score = 0

\* C2: in each of the three variants overall_score is the arithmetic mean of
\* exactly the values of the report's dimension_scores, rounded to one decimal:
\* with n values of sum s (tenths), overall_score is within half a tenth of s / n.
C2_OverallIsRoundedMean ==
    Scored =>
        LET n == Len(report.dimension_scores)
            s == Sum(Values(report.dimension_scores))
            d == n * report.overall_score - s
        IN  /\ n > 0
            /\ 2 * d <= n
            /\ 2 * d >= -n

\* a general report whose mean is rounded up
C2_Witness ==
    /\ Scored
    /\ content_type = "general"
    /\ 3 * report.overall_score > Sum(Values(report.dimension_scores))

\* the threshold table of the grades, on a score in tenths
GradeTable(score) ==
    IF score >= 90 THEN "A+"
    ELSE IF score >= 85 THEN "A"
    ELSE IF score >= 80 THEN "A-"
    ELSE IF score >= 75 THEN "B+"
    ELSE IF score >= 70 THEN "B"
    ELSE IF score >= 65 THEN "B-"
    ELSE IF score >= 60 THEN "C+"
    ELSE IF score >= 55 THEN "C"
    ELSE "C-"

\* C3: the grade of every report is the lookup of the report's own one-decimal
\* overall_score in the threshold table, lower bounds inclusive.
C3_GradeFromOverall ==
    Scored => report.grade = GradeTable(report.overall_score)

\* a report whose overall_score is not the exact mean: the grade is taken from the
\* mean before rounding and still is the lookup of the rounded score
C3_Witness ==
    /\ Scored
    /\ Len(report.dimension_scores) * report.overall_score
           # Sum(Values(report.dimension_scores))
    /\ report.grade \in {"B-", "C+", "C"}

BlogKeys == {"engagement", "structure", "clarity", "actionability", "professionalism"}
LinkedinKeys ==
    {"hook_strength", "engagement_potential", "professionalism", "call_to_action",
     "formatting"}
GeneralKeys == {"clarity", "engagement", "professionalism"}

\* C4: the key set of dimension_scores is fixed by the content type alone: the five
\* blog keys for "blog", the five short-form keys for "linkedin", the three general
\* keys for "general"; any other content type is scored as general.
C4_KeysByContentType ==
    Scored =>
        /\ Len(report.dimension_scores) = Cardinality(KeySet(report.dimension_scores))
        /\ KeySet(report.dimension_scores) =
              (IF content_type = "blog" THEN BlogKeys
               ELSE IF content_type = "linkedin" THEN LinkedinKeys
               ELSE GeneralKeys)
        /\ content_type \notin {"blog", "linkedin"} =>
              report = _score_general_content(content)

\* a text with headings scored under a content type no branch names
C4_Witness ==
    /\ Scored
    /\ content_type = "short_form"
    /\ Len(content) > 0
    /\ KeySet(report.dimension_scores) = GeneralKeys

\* the penalty of one keyword_analysis entry, as the claim C5 states it
EntryPenalty(data) ==
    (IF data.status = "missing" THEN 20 ELSE IF data.status # "optimal" THEN 10 ELSE 0)
    + (IF ~data.in_first_paragraph THEN 5 ELSE 0)

\* the sum P of the penalties of an analysis, from its reported fields
Penalties(a) ==
    (IF a.word_count < 500 THEN 30 ELSE IF a.word_count < 800 THEN 15 ELSE 0)
    + Sum([i \in 1..Len(a.keyword_analysis) |-> EntryPenalty(a.keyword_analysis[i].value)])
    + (IF ~(a.structure.h1_count = 1 /\ a.structure.h2_count >= 2) THEN 10 ELSE 0)
    + (IF a.structure.link_count < 2 THEN 5 ELSE 0)

\* C5: seo_score = max(0, min(100, 100 - P)), P the sum of the length penalty (30
\* under 500 words, else 15 under 800), of 20 / 10 for each analysed keyword that is
\* missing / not optimal plus 5 when it is not in the first paragraph, of 10 without
\* a proper hierarchy (h1_count = 1 and h2_count >= 2) and of 5 with fewer than two
\* links; lists, in_headings and readability do not enter.  A keyword is an entry
\* of keyword_analysis: a keyword the list repeats is one entry (see C10).
C5_SeoScoreFormula ==
    Analysed =>
        LET p == 100 - Penalties(analysis)
        IN  analysis.seo_score = (IF p < 0 THEN 0 ELSE IF p > 100 THEN 100 ELSE p)

\* 500 to 799 words, a keyword used too rarely and after the first 500 characters,
\* no proper hierarchy, no links
C5_Witness ==
    /\ Analysed
    /\ analysis.word_count >= 500
    /\ analysis.word_count < 800
    /\ \E i \in 1..Len(analysis.keyword_analysis) :
          /\ analysis.keyword_analysis[i].value.status = "too_low"
          /\ ~analysis.keyword_analysis[i].value.in_first_paragraph
    /\ ~analysis.structure.has_proper_hierarchy
    /\ analysis.structure.link_count < 2
    /\ analysis.seo_score = 55

BaseValue(dimension) ==
    IF dimension = "clarity" THEN 70
    ELSE IF dimension = "professionalism" THEN 80
    ELSE 50

\* C7, as stated: on the empty string every dimension score, hook_strength
\* included, is the dimension's base value (5.0, 7.0 for clarity, 8.0 for
\* professionalism).
C7_Original ==
    (Scored /\ content = <<>>) =>
        \A i \in 1..Len(report.dimension_scores) :
            report.dimension_scores[i].value = BaseValue(report.dimension_scores[i].key)

\* C7, amended: score_content returns a report for every text, and on the empty
\* string every dimension score is the dimension's base value except hook_strength,
\* which is 6.0: the empty first line is under 100 characters and earns the +1.0 of
\* a concise hook.
C7_EmptyStringScores ==
    Scored =>
        /\ {"overall_score", "dimension_scores", "grade"} \subseteq DOMAIN report
        /\ Len(report.dimension_scores) > 0
        /\ content = <<>> =>
              \A i \in 1..Len(report.dimension_scores) :
                  report.dimension_scores[i].value =
                      (IF report.dimension_scores[i].key = "hook_strength" THEN 60
                       ELSE BaseValue(report.dimension_scores[i].key))

\* the empty string scored as a short-form post
C7_Witness ==
    /\ Scored
    /\ content = <<>>
    /\ content_type = "linkedin"
    /\ \E i \in 1..Len(report.dimension_scores) :
          report.dimension_scores[i].key = "hook_strength"

\* C8: analyze_content returns a report for every text and keyword list; an empty
\* keyword list yields an empty keyword_analysis; when the text has no word token
\* every keyword's density is 0 and avg_sentence_length is 0.
C8_AnalyzeTotal ==
    Analysed =>
        /\ DOMAIN analysis = {"word_count", "keyword_analysis", "readability", "structure",
                              "recommendations", "seo_score"}
        /\ keywords = <<>> => analysis.keyword_analysis = <<>>
        /\ WordTokens(content) = 0 =>
              /\ \A i \in 1..Len(analysis.keyword_analysis) :
                    analysis.keyword_analysis[i].value.density = 0
              /\ analysis.readability.avg_sentence_length = 0

\* a text that is not empty and has a sentence but no word token, analysed for keywords
C8_Witness ==
    /\ Analysed
    /\ Len(content) > 0
    /\ WordTokens(content) = 0
    /\ analysis.readability.sentence_count > 0
    /\ Len(analysis.keyword_analysis) >= 2

\* the elements of a sequence in order of first occurrence
RECURSIVE Distinct(_)
Distinct(xs) ==
    IF xs = <<>> THEN <<>>
    ELSE <<xs[1]>> \o Distinct(SelectSeq(Tail(xs), LAMBDA x : x # xs[1]))

RECURSIVE Flatten(_)
Flatten(xss) == IF Len(xss) = 0 THEN <<>> ELSE xss[1] \o Flatten(Tail(xss))

\* the entry of keyword k in a keyword_analysis
Lookup(d, k) == d[CHOOSE i \in 1..Len(d) : d[i].key = k].value

\* the messages of keyword k with entry data, in the order C9 gives
MessagesFor(k, data) ==
    (IF data.status = "missing" THEN << <<"not present", k>> >> ELSE <<>>)
    \o (IF data.status = "too_low" THEN << <<"density too low", k>> >> ELSE <<>>)
    \o (IF data.status = "too_high" THEN << <<"density too high", k>> >> ELSE <<>>)
    \o (IF data.in_first_paragraph THEN <<>> ELSE << <<"first paragraph", k>> >>)
    \o (IF data.in_headings THEN <<>> ELSE << <<"heading", k>> >>)

\* C9: recommendations is exactly the concatenation of the too-short message iff
\* word_count < 800; for each keyword in input order its status message iff the
\* status is missing, too_low or too_high, its first-paragraph message iff it is not
\* in the first paragraph, its heading message iff it is not in a heading; the H1
\* message iff h1_count is 0 or above 1, the H2 message iff h2_count < 2, the lists
\* message iff there are no lists, the links message iff link_count < 2; the
\* simplify message iff the readability level is difficult.  The keywords are the
\* distinct keywords of the list, each at its first occurrence (see C10).
C9_RecommendationsInOrder ==
    Analysed =>
        LET a == analysis
            ks == Distinct(keywords)
        IN  a.recommendations =
                (IF a.word_count < 800 THEN << <<"too short">> >> ELSE <<>>)
                \o Flatten([i \in 1..Len(ks) |->
                               MessagesFor(ks[i], Lookup(a.keyword_analysis, ks[i]))])
                \o (IF a.structure.h1_count = 0 THEN << <<"add h1">> >> ELSE <<>>)
                \o (IF a.structure.h1_count > 1 THEN << <<"one h1 only">> >> ELSE <<>>)
                \o (IF a.structure.h2_count < 2 THEN << <<"more h2">> >> ELSE <<>>)
                \o (IF a.structure.has_lists THEN <<>> ELSE << <<"add lists">> >>)
                \o (IF a.structure.link_count < 2 THEN << <<"add links">> >> ELSE <<>>)
                \o (IF a.readability.readability_level = "difficult"
                    THEN << <<"simplify">> >> ELSE <<>>)

\* a message of every group: a short, hard to read text without headings, lists
\* or links, and two keywords with three messages each
C9_Witness ==
    /\ Analysed
    /\ analysis.word_count < 800
    /\ Len(analysis.keyword_analysis) = 2
    /\ analysis.structure.h1_count = 0
    /\ ~analysis.structure.has_lists
    /\ analysis.readability.readability_level = "difficult"
    /\ Len(analysis.recommendations) = 12

\* the recommendations that name keyword k
Mentions(a, k) ==
    Cardinality({i \in 1..Len(a.recommendations) :
        Len(a.recommendations[i]) = 2 /\ a.recommendations[i][2] = k})

\* how often k is in the keyword list
Occurrences(kws, k) == Cardinality({i \in 1..Len(kws) : kws[i] = k})

\* the penalties that do not depend on the keywords
FixedPenalties(a) ==
    (IF a.word_count < 500 THEN 30 ELSE IF a.word_count < 800 THEN 15 ELSE 0)
    + (IF a.structure.has_proper_hierarchy THEN 0 ELSE 10)
    + (IF a.structure.link_count < 2 THEN 5 ELSE 0)

Clamp(x) == IF x < 0 THEN 0 ELSE IF x > 100 THEN 100 ELSE x

\* C10, as stated: a keyword that occurs k times in the list is analysed k times
\* and its messages and its penalties are applied once per occurrence.
C10_Original ==
    Analysed =>
        /\ \A i \in 1..Len(keywords) :
              Mentions(analysis, keywords[i]) =
                  Occurrences(keywords, keywords[i])
                  * Len(MessagesFor(keywords[i], Lookup(analysis.keyword_analysis, keywords[i])))
        /\ analysis.seo_score =
              Clamp(100 - FixedPenalties(analysis)
                    - Sum([i \in 1..Len(keywords) |->
                              EntryPenalty(Lookup(analysis.keyword_analysis, keywords[i]))]))

\* C10, amended: keywords are processed in input order and a keyword the list
\* repeats is one key of keyword_analysis: the report has one entry per distinct
\* keyword string, in order of first occurrence, and the keyword's messages and
\* penalties are applied once, however often the list holds it.
C10_DuplicatesCollapse ==
    Analysed =>
        LET ks == Distinct(keywords)
        IN  /\ Len(analysis.keyword_analysis) = Len(ks)
            /\ \A i \in 1..Len(ks) : analysis.keyword_analysis[i].key = ks[i]
            /\ \A i \in 1..Len(ks) :
                  Mentions(analysis, ks[i]) =
                      Len(MessagesFor(ks[i], analysis.keyword_analysis[i].value))
            /\ analysis.seo_score =
                  Clamp(100 - FixedPenalties(analysis)
                        - Sum([i \in 1..Len(ks) |->
                                  EntryPenalty(analysis.keyword_analysis[i].value)]))

\* a list that holds a keyword twice and another one, the repeated keyword with
\* messages and a penalty, the score not clamped
C10_Witness ==
    /\ Analysed
    /\ \E i, j \in 1..Len(keywords) : i < j /\ keywords[i] = keywords[j]
    /\ Len(analysis.keyword_analysis) = 2
    /\ Mentions(analysis, keywords[1]) > 0
    /\ Occurrences(keywords, keywords[1]) = 2
    /\ EntryPenalty(analysis.keyword_analysis[1].value) > 0
    /\ analysis.seo_score > 0

\* the messages of the status rule name one of three rules, those of the H1 rule
\* one of two
StatusRules == {"not present", "density too low", "density too high"}
H1Rules == {"add h1", "one h1 only"}

\* the indices of the recommendations that rule set rs emits about keyword k
RuleHits(a, rs, k) ==
    {i \in 1..Len(a.recommendations) :
        /\ a.recommendations[i][1] \in rs
        /\ Len(a.recommendations[i]) = 2
        /\ a.recommendations[i][2] = k}

\* C11: for every text and keyword list, also one that repeats a keyword or has
\* several keywords under the same condition, recommendations holds no message
\* twice, and every rule contributes at most one message: at most one per keyword
\* for each of the three keyword rules, at most one for each other rule.
C11_NoDuplicateMessages ==
    Analysed =>
        /\ \A i, j \in 1..Len(analysis.recommendations) :
              i # j => analysis.recommendations[i] # analysis.recommendations[j]
        /\ Cardinality({i \in 1..Len(analysis.recommendations) :
                           analysis.recommendations[i][1] \in H1Rules}) <= 1
        /\ \A n \in 1..Len(keywords) :
              /\ Cardinality(RuleHits(analysis, StatusRules, keywords[n])) <= 1
              /\ Cardinality(RuleHits(analysis, {"first paragraph"}, keywords[n])) <= 1
              /\ Cardinality(RuleHits(analysis, {"heading"}, keywords[n])) <= 1

\* a list that repeats a keyword and has a second keyword, both missing from the
\* headings: one heading message for each of the two
C11_Witness ==
    /\ Analysed
    /\ \E i, j \in 1..Len(keywords) : i < j /\ keywords[i] = keywords[j]
    /\ \E i, j \in 1..Len(keywords) :
          /\ keywords[i] # keywords[j]
          /\ RuleHits(analysis, {"heading"}, keywords[i]) # {}
          /\ RuleHits(analysis, {"heading"}, keywords[j]) # {}


\* C12: every report of score_content, for every content type including general,
\* has a strengths list and an improvements list, and neither is empty.
C12_Original ==
    Scored =>
        /\ {"strengths", "improvements"} \subseteq DOMAIN report
        /\ Len(report.strengths) > 0
        /\ Len(report.improvements) > 0

\* the general report of the empty string: it has no strengths key
C12_Witness ==
    /\ Scored
    /\ content_type = "general"
    /\ content = <<>>
    /\ "strengths" \notin DOMAIN report


\* the dimensions of a report at or above 8.0, and those below 6.0, in the order
\* of dimension_scores
Strong(r) == SelectSeq(r.dimension_scores, LAMBDA e : e.value >= 80)
Weak(r) == SelectSeq(r.dimension_scores, LAMBDA e : e.value < 60)

\* C13: in a blog or linkedin report, strengths lists exactly the dimensions with
\* score >= 8.0 and improvements exactly those with score < 6.0 (as 'Improve
\* <name>'), both in the order of dimension_scores; a list is its single fallback
\* sentence exactly when no dimension qualifies; no dimension is in both lists.
C13_StrengthsAndImprovements ==
    (Scored /\ content_type \in {"blog", "linkedin"}) =>
        /\ report.strengths =
              IF Strong(report) = <<>> THEN <<"Good baseline quality">>
              ELSE [i \in 1..Len(Strong(report)) |-> Titled(Strong(report)[i].key)]
        /\ report.improvements =
              IF Weak(report) = <<>> THEN << <<"Minor refinements only">> >>
              ELSE [i \in 1..Len(Weak(report)) |->
                       <<"Improve", Spaced(Weak(report)[i].key)>>]
        /\ \A i \in 1..Len(report.dimension_scores) :
              LET key == report.dimension_scores[i].key
              IN  ~ /\ \E m \in 1..Len(report.strengths) :
                          report.strengths[m] = Titled(key)
                    /\ \E m \in 1..Len(report.improvements) :
                          report.improvements[m] = <<"Improve", Spaced(key)>>

\* a blog report with a dimension at exactly 8.0 among its strengths and, after
\* it in the list, one that is higher, and with two improvements
C13_Witness ==
    /\ Scored
    /\ content_type = "blog"
    /\ Len(report.strengths) >= 2
    /\ \E i \in 1..Len(report.dimension_scores) :
          /\ report.dimension_scores[i].value = 80
          /\ report.strengths[1] = Titled(report.dimension_scores[i].key)
    /\ Len(report.improvements) >= 2
    /\ report.improvements[1] # <<"Minor refinements only">>

\* a linkedin report where no dimension is below 6.0: the fallback sentence alone
C13_WitnessFallback ==
    /\ Scored
    /\ content_type = "linkedin"
    /\ Weak(report) = <<>>
    /\ Strong(report) # <<>>


\* C15: scoring the empty string with content type general returns exactly three
\* dimensions, clarity 7.0, engagement 5.0 and professionalism 8.0, with
\* overall_score 6.7 and grade B-.
C15_EmptyGeneral ==
    (Scored /\ content = <<>> /\ content_type = "general") =>
        /\ Len(report.dimension_scores) = 3
        /\ KeySet(report.dimension_scores) = {"clarity", "engagement", "professionalism"}
        /\ Lookup(report.dimension_scores, "clarity") = 70
        /\ Lookup(report.dimension_scores, "engagement") = 50
        /\ Lookup(report.dimension_scores, "professionalism") = 80
        /\ report.overall_score = 67
        /\ report.grade = "B-"

C15_Witness ==
    /\ Scored
    /\ content = <<>>
    /\ content_type = "general"
    /\ report.overall_score = 67


\* C16: in every KeywordStat the status agrees with the count and the reported
\* two-decimal density: missing iff count = 0; otherwise too_low iff density < 1.0,
\* too_high iff density > 2.5 and optimal iff 1.0 <= density <= 2.5.  No report
\* shows a density >= 1.0 with too_low or a density <= 2.5 with too_high.
C16_Original ==
    Analysed =>
        \A i \in 1..Len(analysis.keyword_analysis) :
            LET data == analysis.keyword_analysis[i].value
            IN  /\ data.status = "missing" <=> data.count = 0
                /\ data.count # 0 =>
                      /\ data.status = "too_low" <=> data.density < 100
                      /\ data.status = "too_high" <=> data.density > 250
                      /\ data.status = "optimal" <=>
                            (100 <= data.density /\ data.density <= 250)

\* the report of the 201-word text for the keyword ai: count 2, density 1.0,
\* status too_low
C16_Witness ==
    /\ Analysed
    /\ analysis.word_count = 201
    /\ \E i \in 1..Len(analysis.keyword_analysis) :
          LET data == analysis.keyword_analysis[i].value
          IN  data.count = 2 /\ data.density = 100 /\ data.status = "too_low"


\* C17: avg_sentence_length is the number of word tokens divided by the number of
\* non-empty sentences (0 when there is none; the report carries it to one
\* decimal), and readability_level agrees with the reported value: easy iff it is
\* below 15, moderate iff it is at least 15 and below 20, difficult iff it is 20
\* or more.
C17_Original ==
    Analysed =>
        LET r == analysis.readability
        IN  /\ r.avg_sentence_length =
                  IF r.sentence_count = 0 THEN 0
                  ELSE RoundHalfEven(analysis.word_count * 10, r.sentence_count)
            /\ r.readability_level = "easy" <=> r.avg_sentence_length < 150
            /\ r.readability_level = "moderate" <=>
                  (150 <= r.avg_sentence_length /\ r.avg_sentence_length < 200)
            /\ r.readability_level = "difficult" <=> r.avg_sentence_length >= 200

\* the report of the text of 314 words in 21 sentences: avg_sentence_length 15.0,
\* readability_level easy
C17_Witness ==
    /\ Analysed
    /\ analysis.word_count = 314
    /\ analysis.readability.sentence_count = 21
    /\ analysis.readability.avg_sentence_length = 150
    /\ analysis.readability.readability_level = "easy"


\* the number of emoji characters of a text
EmojiNumber(c) == Cardinality({i \in 1..Len(c) : c[i] \in EmojiChars})

\* C18: the emoji adjustment of the linkedin formatting score is determined by
\* the number of emoji in the text: +1.5 for one to five, -1.0 for more than ten,
\* none for zero and for six to ten, whether the emoji are adjacent or separated.
C18_Original ==
    (Scored /\ content_type = "linkedin") =>
        Lookup(report.dimension_scores, "formatting") =
            Clamp(50
                  + (IF Contains(content, <<"\n","\n">>) THEN 20 ELSE 0)
                  + (IF 1 <= EmojiNumber(content) /\ EmojiNumber(content) <= 5 THEN 15
                     ELSE IF EmojiNumber(content) > 10 THEN -10 ELSE 0)
                  + (IF 500 <= Len(content) /\ Len(content) <= 2000 THEN 15
                     ELSE IF Len(content) > 3000 THEN -10 ELSE 0))

\* the linkedin report of six emoji in a row: formatting 6.5
C18_Witness ==
    /\ Scored
    /\ content_type = "linkedin"
    /\ EmojiNumber(content) = 6
    /\ Len(content) = 6
    /\ Lookup(report.dimension_scores, "formatting") = 65


\* the content before the first newline
BeforeNewline(c) ==
    IF \E i \in 1..Len(c) : c[i] = "\n"
    THEN SubSeq(c, 1, (CHOOSE i \in 1..Len(c) :
                          c[i] = "\n" /\ \A j \in 1..(i - 1) : c[j] # "\n") - 1)
    ELSE c

\* the four bonuses of a first line, in tenths
HookBonuses(line) ==
    << IF EndsWithQuestion(line) THEN 20 ELSE 0,
       IF HasPercent(line) THEN 20 ELSE 0,
       IF ContainsAny(lower(line), bold_words) THEN 10 ELSE 0,
       IF Len(line) < 100 THEN 10 ELSE 0 >>

\* C19: hook_strength depends on the first line only: two texts with the same
\* content before the first newline get the same hook_strength, whatever follows.
\* Its value is min(10, 5.0 + 2.0 for a stripped first line ending in '?' + 2.0
\* for a digit-percent pattern + 1.0 for a bold word + 1.0 for a first line under
\* 100 characters), and the cap binds exactly when all four bonuses apply.
C19_HookFromFirstLine ==
    (Scored /\ content_type = "linkedin") =>
        LET hook == Lookup(report.dimension_scores, "hook_strength")
            bonuses == HookBonuses(BeforeNewline(content))
        IN  /\ hook = IF 50 + Sum(bonuses) > 100 THEN 100 ELSE 50 + Sum(bonuses)
            /\ 50 + Sum(bonuses) > 100 <=> \A i \in 1..4 : bonuses[i] > 0
            /\ \A other \in ShortTexts \cup EdgeTexts :
                  BeforeNewline(other) = BeforeNewline(content) =>
                      _score_hook(other) = hook

\* a linkedin report of a text whose first line has no question mark, percentage
\* or bold word while a later line has all three: hook_strength 6.0
C19_Witness ==
    /\ Scored
    /\ content_type = "linkedin"
    /\ BeforeNewline(content) # content
    /\ HasPercent(content) /\ ~HasPercent(BeforeNewline(content))
    /\ EndsWithQuestion(content) /\ ~EndsWithQuestion(BeforeNewline(content))
    /\ Lookup(report.dimension_scores, "hook_strength") = 60

\* a linkedin report of a longer text whose first line earns all four bonuses:
\* 11.0 capped to 10.0
C19_WitnessCap ==
    /\ Scored
    /\ content_type = "linkedin"
    /\ Len(content) > 100
    /\ Sum(HookBonuses(BeforeNewline(content))) = 60
    /\ Lookup(report.dimension_scores, "hook_strength") = 100


\* the rank of a status: missing < too_low / too_high < optimal
Rank(status) ==
    CASE status = "missing" -> 0
      [] status \in {"too_low", "too_high"} -> 1
      [] status = "optimal" -> 2

\* the part of the seo_score penalty that keyword k accounts for: what the score
\* lost, less the penalties that do not depend on keywords and those of the other
\* keywords (with at most two keywords the score is never clamped)
AttributedPenalty(a, k) ==
    (100 - FixedPenalties(a) - a.seo_score)
    - Sum([i \in 1..Len(a.keyword_analysis) |->
              IF a.keyword_analysis[i].key = k THEN 0
              ELSE EntryPenalty(a.keyword_analysis[i].value)])

\* C14: for a text in which a non-empty keyword has status missing, inserting
\* occurrences of keywords (also at the start of the text and in a heading) never
\* lowers that keyword's status rank and never increases the seo_score penalty
\* attributable to it.  Every text analysed before is an ancestor of the current
\* one.
C14_InsertionMonotone ==
    Analysed =>
        \A a \in seen :
            (a.fn = "analyze_content" /\ Len(a.content) < Len(content)) =>
                \A i \in 1..Len(a.result.keyword_analysis) :
                    LET k == a.result.keyword_analysis[i].key
                        before == a.result.keyword_analysis[i].value
                        after == Lookup(analysis.keyword_analysis, k)
                    IN  (Len(k) > 0 /\ before.status = "missing") =>
                            /\ Rank(after.status) >= Rank(before.status)
                            /\ AttributedPenalty(analysis, k)
                                  <= AttributedPenalty(a.result, k)

\* a keyword that was missing and, after two insertions, stands in the first
\* paragraph and in a heading with a density that is too high
C14_Witness ==
    /\ Analysed
    /\ \E a \in seen :
          /\ a.fn = "analyze_content"
          /\ Len(a.content) < Len(content)
          /\ \E i \in 1..Len(a.result.keyword_analysis) :
                LET k == a.result.keyword_analysis[i].key
                    after == Lookup(analysis.keyword_analysis, k)
                IN  /\ a.result.keyword_analysis[i].value.status = "missing"
                    /\ after.count = 2
                    /\ after.status = "too_high"
                    /\ after.in_first_paragraph
                    /\ after.in_headings

\* after one insertion into a text of 150 words and more: too_low; into a text of
\* some 50 words: optimal
C14_WitnessLowAndOptimal ==
    /\ Analysed
    /\ \E a \in seen :
          /\ a.fn = "analyze_content"
          /\ \E i \in 1..Len(a.result.keyword_analysis) :
                /\ a.result.keyword_analysis[i].value.status = "missing"
                /\ analysis.keyword_analysis[i].value.status = "too_low"
                /\ Len(analysis.keyword_analysis) = 2
                /\ analysis.keyword_analysis[3 - i].value.status = "optimal"

-----------------------------------------------------------------------------
(* The properties of the request pipeline.                                 *)

\* the positions in calls at which one of the functions fns is called
CallsOf(fns) == {i \in 1..Len(calls) : calls[i].ev = "call" /\ calls[i].fn \in fns}

\* the writers, and the functions the primary step starts with
Writers == {"write_blog_post", "generate_linkedin_post"}
PrimaryGenerators == Writers \cup {"generate_image"}

\* the step of the pipeline a function belongs to
Stage(fn) ==
    CASE fn = "route_query" -> 1
      [] fn = "conduct_research" -> 2
      [] fn \in PrimaryGenerators \cup {"optimize_for_seo", "optimize_engagement"} -> 3
      [] fn = "create_blog_header_image" -> 4

\* C20: process_request runs a fixed pipeline without retries and without
\* concurrency: route, then research (only when routing.requires_research), then
\* the primary generator, then the secondary image step.  The router, the
\* research agent and the primary generator are each called at most once in a
\* request; research has returned before the writer is called; the writer is
\* given exactly the research summary of the same request, and the empty string
\* when no research ran.
C20_FixedPipeline ==
    /\ Cardinality(CallsOf({"route_query"})) <= 1
    /\ Cardinality(CallsOf({"conduct_research"})) <= 1
    /\ Cardinality(CallsOf(PrimaryGenerators)) <= 1
    \* a call has ended before the next one starts, and nothing follows a call
    \* that raised
    /\ \A i \in 1..Len(calls) :
          /\ calls[i].ev = "call" <=> i % 2 = 1
          /\ i % 2 = 0 => calls[i].fn = calls[i - 1].fn
          /\ calls[i].ev = "raise" => i = Len(calls)
    /\ Len(calls) % 2 = 0
    \* the steps come in the order of the pipeline
    /\ \A i, j \in 1..Len(calls) : i < j => Stage(calls[i].fn) <= Stage(calls[j].fn)
    /\ CallsOf({"conduct_research"}) # {} => CallsOf({"route_query"}) # {}
    /\ CallsOf(PrimaryGenerators) # {} => CallsOf({"route_query"}) # {}
    \* research runs only when, and whenever, the routing asks for it
    /\ CallsOf({"conduct_research"}) # {} =>
          /\ routing.json = "object"
          /\ Truthy(Get(routing.members, "requires_research", "false"))
    /\ (pc \in {"primary", "secondary", "summary"}
        /\ Truthy(Get(routing.members, "requires_research", "false"))) =>
          \E r \in CallsOf({"conduct_research"}) : calls[r + 1].ev = "return"
    \* the writer starts after research has returned, with its summary
    /\ \A w \in CallsOf(Writers) :
          /\ \A r \in CallsOf({"conduct_research"}) :
                r + 1 < w /\ calls[r + 1].ev = "return"
          /\ calls[w].args.research_data =
                IF "research" \in DOMAIN outputs THEN outputs["research"].summary
                ELSE ""

\* a second request, after one whose research returned 'facts': its research
\* returns the empty string, and the blog writer and the header image follow
C20_Witness ==
    /\ pc = "idle"
    /\ UserTurns = 2
    /\ Len(store.research_docs) = 2
    /\ store.research_docs[1].document = "facts"
    /\ store.research_docs[2].document = ""
    /\ \E w \in CallsOf({"write_blog_post"}) : calls[w].args.research_data = ""
    /\ CallsOf({"create_blog_header_image"}) # {}
    /\ "outputs" \in DOMAIN result
    /\ "blog_image" \in DOMAIN result.outputs

\* a second request without research, after one whose research returned 'facts':
\* the writer is given the empty string
C20_WitnessNoResearch ==
    /\ UserTurns = 2
    /\ Len(store.research_docs) = 1
    /\ store.research_docs[1].document = "facts"
    /\ "research" \notin DOMAIN outputs
    /\ \E w \in CallsOf(Writers) : calls[w].args.research_data = ""


\* the entries of a keyword_analysis whose status is missing
MissingEntries(a) ==
    {i \in 1..Len(a.keyword_analysis) : a.keyword_analysis[i].value.status = "missing"}

\* C26: a keyword whose status is missing is neither in_first_paragraph nor
\* in_headings; so every missing keyword costs exactly 25 points of seo_score
\* before clamping (the score is the clamped 100 less the keyword-independent
\* penalties, 25 for each missing entry and the penalties of the other entries) and
\* contributes exactly three recommendation messages, consecutive and in the order
\* not present, first paragraph, heading.  Conversely in_first_paragraph or
\* in_headings implies count >= 1.
C26_MissingKeyword ==
    Analysed =>
        /\ \A i \in 1..Len(analysis.keyword_analysis) :
              LET k == analysis.keyword_analysis[i].key
                  data == analysis.keyword_analysis[i].value
              IN  /\ data.status = "missing" =>
                        /\ ~data.in_first_paragraph
                        /\ ~data.in_headings
                        /\ Mentions(analysis, k) = 3
                        /\ \E j \in 1..(Len(analysis.recommendations) - 2) :
                              /\ analysis.recommendations[j] = <<"not present", k>>
                              /\ analysis.recommendations[j + 1] = <<"first paragraph", k>>
                              /\ analysis.recommendations[j + 2] = <<"heading", k>>
                  /\ (data.in_first_paragraph \/ data.in_headings) => data.count >= 1
        /\ analysis.seo_score =
              Clamp(100 - FixedPenalties(analysis)
                    - 25 * Cardinality(MissingEntries(analysis))
                    - Sum([i \in 1..Len(analysis.keyword_analysis) |->
                              IF i \in MissingEntries(analysis) THEN 0
                              ELSE EntryPenalty(analysis.keyword_analysis[i].value)]))

\* the keyword seo is missing from a text whose heading names AI; the keyword AI
\* is analysed too and is in that heading; the score is not clamped
C26_Witness ==
    /\ Analysed
    /\ analysis.seo_score > 0
    /\ \E i, j \in 1..Len(analysis.keyword_analysis) :
          /\ analysis.keyword_analysis[i].value.status = "missing"
          /\ analysis.keyword_analysis[j].value.in_headings
          /\ analysis.keyword_analysis[j].value.count >= 1


Range(xs) == {xs[i] : i \in 1..Len(xs)}

\* the rules of the messages of a report
RulesOf(a) == {a.recommendations[i][1] : i \in 1..Len(a.recommendations)}

\* the rules whose condition costs no point
FreeRules == {"add lists", "heading", "simplify"}

\* C27: every seo_score penalty has a matching recommendation: a text under 800
\* words has the too-short message, a keyword that is not optimal its status
\* message, a keyword outside the first paragraph its first-paragraph message, a
\* report without a proper hierarchy an H1 or H2 message, fewer than two links the
\* links message.  So an empty recommendations list implies seo_score = 100 and
\* seo_score < 100 implies a non-empty list.  The converse does not hold: the
\* messages about lists, headings and difficult readability come without a penalty,
\* and they are the only messages of a report whose seo_score is 100.
C27_PenaltiesHaveRecommendations ==
    Analysed =>
        /\ analysis.word_count < 800 => <<"too short">> \in Range(analysis.recommendations)
        /\ \A i \in 1..Len(analysis.keyword_analysis) :
              LET k == analysis.keyword_analysis[i].key
                  data == analysis.keyword_analysis[i].value
              IN  /\ data.status # "optimal" =>
                        \E r \in {"not present", "density too low", "density too high"} :
                            <<r, k>> \in Range(analysis.recommendations)
                  /\ ~data.in_first_paragraph =>
                        <<"first paragraph", k>> \in Range(analysis.recommendations)
        /\ ~analysis.structure.has_proper_hierarchy =>
              RulesOf(analysis) \cap {"add h1", "one h1 only", "more h2"} # {}
        /\ analysis.structure.link_count < 2 => "add links" \in RulesOf(analysis)
        /\ analysis.recommendations = <<>> => analysis.seo_score = 100
        /\ analysis.seo_score < 100 => analysis.recommendations # <<>>
        /\ analysis.seo_score = 100 => RulesOf(analysis) \subseteq FreeRules

\* a report without any recommendation: seo_score 100
C27_Witness ==
    /\ Analysed
    /\ analysis.recommendations = <<>>
    /\ analysis.seo_score = 100

\* a report whose seo_score is 100 and that recommends lists all the same
C27_WitnessFreeMessage ==
    /\ Analysed
    /\ analysis.seo_score = 100
    /\ analysis.recommendations = << <<"add lists">> >>


\* C28: the end-placement bonus of call_to_action comes only with a phrase that
\* the count over the whole text has counted, so call_to_action is 5.0, 6.5, 8.0,
\* 8.5 or 10.0 and never 7.0: 5.0 without any call-to-action phrase, 6.5 or 8.0
\* with phrases that all stand before the last 200 characters, 8.5 or 10.0 with a
\* phrase in the last 200 characters.  For a text of at most 200 characters it is
\* 5.0 or at least 8.5.
C28_CallToActionValues ==
    (Scored /\ content_type = "linkedin") =>
        LET cta == Lookup(report.dimension_scores, "call_to_action")
            counted == HitCount(lower(content), cta_phrases)
            at_end == ContainsAny(lower(suffix(content, 200)), cta_phrases)
        IN  /\ cta \in {50, 65, 80, 85, 100}
            /\ at_end => counted >= 1
            /\ cta = 50 <=> counted = 0
            /\ cta \in {65, 80} <=> (counted >= 1 /\ ~at_end)
            /\ cta \in {85, 100} <=> at_end
            /\ Len(content) <= 200 => (cta = 50 \/ cta >= 85)

\* one phrase, more than 200 characters before the end: 6.5
C28_Witness ==
    /\ Scored
    /\ content_type = "linkedin"
    /\ Len(content) > 200
    /\ Lookup(report.dimension_scores, "call_to_action") = 65

\* the other values above 5.0: two phrases before the end (8.0), one phrase in a
\* text of twelve characters (8.5), two phrases at the end (10.0)
C28_WitnessEarlyPair ==
    /\ Scored
    /\ content_type = "linkedin"
    /\ Lookup(report.dimension_scores, "call_to_action") = 80

C28_WitnessShort ==
    /\ Scored
    /\ content_type = "linkedin"
    /\ Len(content) <= 200
    /\ Lookup(report.dimension_scores, "call_to_action") = 85

C28_WitnessEndPair ==
    /\ Scored
    /\ content_type = "linkedin"
    /\ Lookup(report.dimension_scores, "call_to_action") = 100


\* the functions called twice or more in the request
Retried == {fn \in {calls[i].fn : i \in 1..Len(calls)} : Cardinality(CallsOf({fn})) > 1}

\* C21, as stated: a failure of an external call made while serving
\* process_request (web search, language-model call, image generation) is never
\* retried, and a broad catch turns it into an error value in the returned result:
\* no call of an agent ends in an exception and process_request never raises.
C21_Original ==
    /\ \A i \in 1..Len(calls) : calls[i].ev = "raise" => calls[i].fn \notin Retried
    /\ \A i \in 1..Len(calls) : calls[i].ev # "raise"
    /\ result # Raised

\* the language-model call of route_query fails on the first request: the
\* exception leaves process_request, the conversation memory holds the query, and
\* no result is returned
C21_Witness ==
    /\ pc = "idle"
    /\ result = Raised
    /\ calls = << Call("route_query", [user_query |-> query,
                                       conversation_context |-> memory]),
                  Raise("route_query") >>
    /\ memory = << [role |-> "user", content |-> query] >>

\* what the code does catch: a failure of the image service becomes an error
\* value in outputs and the request returns
C21_WitnessImageError ==
    /\ pc = "idle"
    /\ "outputs" \in DOMAIN result
    /\ "image" \in DOMAIN result.outputs
    /\ "error" \in DOMAIN result.outputs["image"]


\* the roles of the messages of a history
Roles(mem) == [i \in 1..Len(mem) |-> mem[i].role]

\* the history while a request is served, and after a request that raised: it
\* ends with the query of the request
EndsWithQuery ==
    /\ memory # <<>>
    /\ memory[Len(memory)] = [role |-> "user", content |-> query]

\* what the steps do to the history: a call of process_request appends the query,
\* a return appends one assistant message, a raise and every other step leave the
\* history as it is
MemorySteps ==
    /\ (pc = "idle" /\ pc' # "idle") =>
          memory' = Append(memory, [role |-> "user", content |-> query'])
    /\ (pc # "idle" /\ pc' = "idle" /\ result' # Raised) =>
          /\ Len(memory') = Len(memory) + 1
          /\ SubSeq(memory', 1, Len(memory)) = memory
          /\ memory'[Len(memory')].role = "assistant"
    /\ (pc # "idle" /\ (pc' # "idle" \/ result' = Raised)) => memory' = memory

\* C24: process_request appends the query to the conversation memory before it
\* routes, so the context the router reads ends with the current query; a call
\* that returns appends exactly one assistant summary after it, so a history in
\* which every call returned has length 2n after n calls and alternates user,
\* assistant; a call that raises during routing or generation leaves its user
\* message in the history without an assistant message.
C24_MemoryProtocol ==
    /\ [](pc # "idle" => EndsWithQuery)
    /\ [](\A i \in CallsOf({"route_query"}) :
            LET context == calls[i].args.conversation_context
            IN  /\ context # <<>>
                /\ context[Len(context)] = [role |-> "user", content |-> calls[i].args.user_query])
    /\ []((pc = "idle" /\ result = Raised) => EndsWithQuery)
    /\ []((pc = "idle" /\ "outputs" \in DOMAIN result) =>
            /\ Len(memory) >= 2
            /\ memory[Len(memory) - 1] = [role |-> "user", content |-> query]
            /\ memory[Len(memory)] =
                  [role |-> "assistant", content |-> _create_result_summary(result)])
    /\ [](\A i \in 1..Len(memory) :
            memory[i].role = "assistant" => (i > 1 /\ memory[i - 1].role = "user"))
    /\ []((pc = "idle" /\ \A i \in 1..Len(memory) :
                             memory[i].role = "user" =>
                                (i < Len(memory) /\ memory[i + 1].role = "assistant")) =>
            /\ Len(memory) = 2 * UserTurns
            /\ \A i \in 1..Len(memory) :
                  memory[i].role = IF i % 2 = 1 THEN "user" ELSE "assistant")
    /\ [][MemorySteps]_vars

\* two calls that returned: user, assistant, user, assistant
C24_Witness ==
    /\ pc = "idle"
    /\ "outputs" \in DOMAIN result
    /\ Roles(memory) = <<"user", "assistant", "user", "assistant">>

\* a call that raised in a generator, then a call that returned: the first query
\* has no reply
C24_WitnessNoRollback ==
    /\ pc = "idle"
    /\ "outputs" \in DOMAIN result
    /\ Roles(memory) = <<"user", "user", "assistant">>


\* the output key of a primary agent
OutputKey(agent) ==
    CASE agent = "blog_agent" -> "blog"
      [] agent = "linkedin_agent" -> "linkedin"
      [] agent = "image_agent" -> "image"

\* the store while a request is served: it takes one research document, the
\* summary stored under the query as topic, in the step that conducts research,
\* and nothing in any other step
StoreSteps ==
    /\ (pc = "research" /\ pc' = "primary" /\ "research" \in DOMAIN outputs') =>
          /\ store'.documents =
                Append(store.documents, store'.documents[Len(store'.documents)])
          /\ store'.research_docs =
                Append(store.research_docs, store'.documents[Len(store'.documents)])
          /\ store'.brand_voice_docs = store.brand_voice_docs
          /\ store'.documents[Len(store'.documents)].document = outputs'["research"].summary
          /\ store'.documents[Len(store'.documents)].metadata =
                [type |-> "research", topic |-> query, source |-> "serper_api"]
    /\ ~(pc = "research" /\ pc' = "primary" /\ "research" \in DOMAIN outputs') =>
          store' = store

\* C25: in every result of process_request, outputs has research iff
\* routing.requires_research is truthy, and then exactly one research document was
\* stored for the request; at most one of blog, linkedin, image is present, and it
\* is the one primary_agent names; blog_image is present only with blog and with
\* image_agent among the secondary agents; an unrecognised or missing
\* primary_agent gives no primary output and no error.
C25_ResultShape ==
    /\ []("outputs" \in DOMAIN result =>
            LET r == result.routing.members
                primary_agent == Get(r, "primary_agent", "null")
                present == DOMAIN result.outputs \cap {"blog", "linkedin", "image"}
            IN  /\ "research" \in DOMAIN result.outputs
                      <=> Truthy(Get(r, "requires_research", "false"))
                /\ Cardinality(present) <= 1
                /\ primary_agent \in {"blog_agent", "linkedin_agent", "image_agent"}
                      => present = {OutputKey(primary_agent)}
                /\ primary_agent \notin {"blog_agent", "linkedin_agent", "image_agent"}
                      => present = {}
                /\ "blog_image" \in DOMAIN result.outputs =>
                      /\ "blog" \in DOMAIN result.outputs
                      /\ \E i \in 1..Len(Get(r, "secondary_agents", <<>>)) :
                            r.secondary_agents[i] = "image_agent"
                /\ DOMAIN result.outputs \subseteq
                      {"research", "blog", "linkedin", "image", "blog_image"})
    /\ [][StoreSteps]_vars

\* a result with research, a blog post and its header image; the store holds the
\* research document of the request
C25_Witness ==
    /\ pc = "idle"
    /\ "outputs" \in DOMAIN result
    /\ DOMAIN result.outputs = {"research", "blog", "blog_image"}
    /\ Len(store.research_docs) = 1

\* a routing that names video_agent, with image_agent as secondary agent: a
\* result without any output
C25_WitnessUnknownAgent ==
    /\ pc = "idle"
    /\ "outputs" \in DOMAIN result
    /\ Get(result.routing.members, "primary_agent", "null") = "video_agent"
    /\ result.outputs = EmptyDict

\* a routing without primary_agent: research only
C25_WitnessMissingAgent ==
    /\ pc = "idle"
    /\ "outputs" \in DOMAIN result
    /\ "primary_agent" \notin DOMAIN result.routing.members
    /\ result.outputs = EmptyDict


\* the query, lowered, holds one of the words
QueryHas(words) == \E w \in words : Contains(lower(query), w)

\* the agent the fallback of C22 names for the query
FallbackAgent ==
    IF QueryHas({<<"b","l","o","g">>, <<"a","r","t","i","c","l","e">>,
                 <<"w","r","i","t","e">>, <<"p","o","s","t">>})
    THEN IF QueryHas({<<"l","i","n","k","e","d","i","n">>}) THEN "linkedin_agent"
         ELSE "blog_agent"
    ELSE IF QueryHas({<<"i","m","a","g","e">>, <<"v","i","s","u","a","l">>,
                      <<"g","r","a","p","h","i","c">>, <<"p","i","c","t","u","r","e">>})
    THEN "image_agent"
    ELSE IF QueryHas({<<"r","e","s","e","a","r","c","h">>, <<"f","i","n","d">>,
                      <<"s","e","a","r","c","h">>, <<"a","n","a","l","y","z","e">>})
    THEN "research_agent"
    ELSE "blog_agent"

\* C22: route_query is called once for a query and asks the language model once;
\* when the answer does not parse as JSON it returns, without raising, the
\* fallback for the lowered query: blog / article / write / post give
\* linkedin_agent if the query also holds linkedin, else blog_agent; else image /
\* visual / graphic / picture give image_agent; else research / find / search /
\* analyze give research_agent; else blog_agent.  A fallback routing names one of
\* the four agents, has no secondary agents and a boolean requires_research.
C22_FallbackRouting ==
    /\ Cardinality(CallsOf({"route_query"})) <= 1
    /\ pc = "research" =>
          /\ Len(calls) = 2
          /\ calls[1] = Call("route_query",
                             [user_query |-> query,
                              conversation_context |-> LastN(memory, 2)])
          /\ calls[2].ev = "return"
          /\ calls[2].response = "unparsable" =>
                /\ routing.json = "object"
                /\ routing.members.primary_agent = FallbackAgent
                /\ routing.members.primary_agent \in
                      {"blog_agent", "linkedin_agent", "image_agent", "research_agent"}
                /\ routing.members.secondary_agents = <<>>
                /\ routing.members.requires_research \in {"true", "false"}
    /\ \A i \in 1..Len(calls) : calls[i].ev = "raise" => result = Raised

\* an answer that does not parse, for a query with a content word and an image
\* word: blog_agent
C22_Witness ==
    /\ pc = "research"
    /\ calls[2].response = "unparsable"
    /\ QueryHas({<<"p","i","c","t","u","r","e">>})
    /\ QueryHas({<<"p","o","s","t">>})
    /\ routing.members.primary_agent = "blog_agent"

\* the other agents of the fallback, and requires_research false
C22_WitnessLinkedin ==
    /\ pc = "research"
    /\ calls[2].response = "unparsable"
    /\ routing.members.primary_agent = "linkedin_agent"
    /\ routing.members.requires_research = "false"

C22_WitnessImage ==
    /\ pc = "research"
    /\ calls[2].response = "unparsable"
    /\ QueryHas({<<"f","i","n","d">>})
    /\ routing.members.primary_agent = "image_agent"

C22_WitnessResearch ==
    /\ pc = "research"
    /\ calls[2].response = "unparsable"
    /\ routing.members.primary_agent = "research_agent"
    /\ routing.members.requires_research = "true"


\* the last call is a search
Searched == calls # <<>> /\ calls[1].fn = "search"

\* the documents a search with the filter looks at
Category(filter_dict) ==
    IF filter_dict = [type |-> "brand_voice"] THEN store.brand_voice_docs
    ELSE IF filter_dict = [type |-> "research"] THEN store.research_docs
    ELSE store.documents

\* how many of the words of the query, lowered, are in the document, lowered
Overlap(q, document) ==
    LET words == SplitWords(lower(q))
    IN  Cardinality({i \in 1..Len(words) : Contains(lower(document), words[i])})

\* C23: search scans the documents of the selected category (all documents when
\* the filter is absent or its type is neither brand_voice nor research), scores
\* each by the number of whitespace-separated query words that occur in it as
\* case-insensitive substrings, and returns only documents with a score above 0,
\* at most n_results of them, by falling score and, for equal scores, in insertion
\* order; the documents, metadatas and ids returned have equal length and
\* correspond position by position.  The result is told by positions of the
\* category: pos[j] is the position of the j-th document returned.
C23_SearchResult ==
    Searched =>
        LET args == calls[1].args
            docs == Category(args.filter_dict)
            Score(i) == Overlap(args.query, docs[i].document)
            hits == {i \in 1..Len(docs) : Score(i) > 0}
            Before(i, k) == Score(i) > Score(k) \/ (Score(i) = Score(k) /\ i < k)
            n == Len(result.documents[1])
        IN  /\ Len(result.documents) = 1 /\ Len(result.metadatas) = 1 /\ Len(result.ids) = 1
            /\ Len(result.metadatas[1]) = n
            /\ Len(result.ids[1]) = n
            /\ n = min2(args.n_results, Cardinality(hits))
            /\ \E pos \in [1..n -> hits] :
                  /\ \A j \in 1..n :
                        /\ result.documents[1][j] = docs[pos[j]].document
                        /\ result.metadatas[1][j] = docs[pos[j]].metadata
                        /\ result.ids[1][j] = docs[pos[j]].id
                  /\ \A j, k \in 1..n : j < k => Before(pos[j], pos[k])
                  /\ \A h \in hits :
                        (\A j \in 1..n : pos[j] # h) => \A j \in 1..n : Before(pos[j], h)

\* three documents hold a word of 'ai SEO', two of them with the same score; a
\* search for two results returns the one with both words and then the earlier
\* of the other two
C23_Witness ==
    /\ Searched
    /\ calls[1].args.n_results = 2
    /\ Len(store.documents) = 3
    /\ Overlap(calls[1].args.query, store.documents[1].document) = 1
    /\ Overlap(calls[1].args.query, store.documents[2].document) = 1
    /\ Overlap(calls[1].args.query, store.documents[3].document) = 2
    /\ store.documents[1] # store.documents[2]
    /\ calls[1].args.filter_dict = [type |-> "note"]
    /\ result.documents[1] = <<store.documents[3].document, store.documents[1].document>>
    /\ result.metadatas[1] = <<store.documents[3].metadata, store.documents[1].metadata>>

\* a search among the research documents of a store that holds other documents
\* with the words of the query
C23_WitnessCategory ==
    /\ Searched
    /\ calls[1].args.filter_dict = [type |-> "research"]
    /\ Len(result.documents[1]) = 1
    /\ Len(store.research_docs) = 1
    /\ \E i \in 1..Len(store.documents) :
          /\ store.documents[i].metadata.type # "research"
          /\ Overlap(calls[1].args.query, store.documents[i].document) > 0

\* the entry of a list-typed call at position i
EntryOf(args, i) ==
    [id |-> args.ids[i], document |-> args.documents[i], metadata |-> args.metadatas[i]]

\* the entries of documents whose metadata has the type, in their order
OfType(type) ==
    SelectSeq(store.documents, LAMBDA e : Get(e.metadata, "type", "null") = type)

\* what a call does to the store: every list keeps its entries and their order,
\* and add_documents appends one entry for each position of its shortest list
StoreGrows ==
    /\ SubSeq(store'.documents, 1, Len(store.documents)) = store.documents
    /\ SubSeq(store'.brand_voice_docs, 1, Len(store.brand_voice_docs)) = store.brand_voice_docs
    /\ SubSeq(store'.research_docs, 1, Len(store.research_docs)) = store.research_docs
    /\ Len(store'.documents) >= Len(store.documents)
    /\ (calls' # <<>> /\ calls'[1].fn = "add_documents") =>
          LET args == calls'[1].args
              shortest == Min({Len(args.documents), Len(args.metadatas), Len(args.ids)})
          IN  /\ Len(store'.documents) = Len(store.documents) + shortest
              /\ \A i \in 1..shortest :
                    store'.documents[Len(store.documents) + i] = EntryOf(args, i)
    /\ (calls' # <<>> /\ calls'[1].fn \in {"add_brand_voice_example", "store_research"}) =>
          Len(store'.documents) = Len(store.documents) + 1

\* C29: after any sequence of add_documents, add_brand_voice_example and
\* store_research calls the store has only grown; brand_voice_docs and
\* research_docs are disjoint subsequences of documents in insertion order, an
\* entry is in brand_voice_docs iff its metadata type is brand_voice and in
\* research_docs iff it is research; entries with a repeated id are kept as
\* separate entries; add_documents with lists of unequal length stores as many
\* entries as its shortest list has.
C29_StoreGrowsByCategory ==
    /\ [](store.brand_voice_docs = OfType("brand_voice"))
    /\ [](store.research_docs = OfType("research"))
    /\ [](\A i \in 1..Len(store.brand_voice_docs), j \in 1..Len(store.research_docs) :
            store.brand_voice_docs[i] # store.research_docs[j])
    /\ [][StoreGrows]_vars

\* add_documents was called with two documents, two metadatas and three ids, on a
\* store that held the id d1 already: two entries more, three entries with id d1
C29_Witness ==
    /\ calls # <<>>
    /\ calls[1].fn = "add_documents"
    /\ Len(calls[1].args.documents) = 2
    /\ Len(calls[1].args.ids) = 3
    /\ Len(store.documents) = 3
    /\ \A i \in 1..3 : store.documents[i].id = "d1"
    /\ Len(store.brand_voice_docs) = 2
    /\ Len(store.research_docs) = 1


\* a campaign was called, and it returned
CampaignCalled == calls # <<>> /\ calls[1].fn = "create_content_campaign"
CampaignReturned == CampaignCalled /\ "campaign_outputs" \in DOMAIN result

\* C30: create_content_campaign conducts research exactly once whatever the
\* include flags are, and leaves the conversation memory and the vector store as
\* they were; campaign_outputs has blog iff include_blog, linkedin iff
\* include_linkedin and images iff include_images, and images holds blog_header
\* iff include_blog and linkedin_visual iff include_linkedin: an empty mapping
\* when both are false.
C30_Campaign ==
    /\ [](CampaignCalled =>
            /\ Cardinality(CallsOf({"conduct_research"})) = 1
            /\ calls[2] = Call("conduct_research", [topic |-> calls[1].args.topic]))
    /\ [](CampaignReturned =>
            LET flags == calls[1].args
                campaign_outputs == result.campaign_outputs
            IN  /\ "blog" \in DOMAIN campaign_outputs <=> flags.include_blog
                /\ "linkedin" \in DOMAIN campaign_outputs <=> flags.include_linkedin
                /\ "images" \in DOMAIN campaign_outputs <=> flags.include_images
                /\ DOMAIN campaign_outputs \subseteq {"blog", "linkedin", "images"}
                /\ flags.include_images =>
                      /\ "blog_header" \in DOMAIN campaign_outputs["images"]
                            <=> flags.include_blog
                      /\ "linkedin_visual" \in DOMAIN campaign_outputs["images"]
                            <=> flags.include_linkedin
                      /\ DOMAIN campaign_outputs["images"] \subseteq
                            {"blog_header", "linkedin_visual"}
                /\ result.research.topic = flags.topic)
    /\ [][memory' = memory /\ store' = store]_vars

\* a campaign of images only, called after a served request: research ran, the
\* images mapping is empty, the memory and the store hold what the request left
C30_Witness ==
    /\ CampaignReturned
    /\ ~calls[1].args.include_blog
    /\ ~calls[1].args.include_linkedin
    /\ calls[1].args.include_images
    /\ result.campaign_outputs = [images |-> EmptyDict]
    /\ Cardinality(CallsOf({"conduct_research"})) = 1
    /\ Len(memory) = 2
    /\ Len(store.research_docs) = 1

\* a campaign with all three flags: blog, linkedin and both images
C30_WitnessAll ==
    /\ CampaignReturned
    /\ DOMAIN result.campaign_outputs = {"blog", "linkedin", "images"}
    /\ DOMAIN result.campaign_outputs["images"] = {"blog_header", "linkedin_visual"}
    /\ Cardinality(CallsOf({"conduct_research"})) = 1

\* a campaign without any flag: research only
C30_WitnessNone ==
    /\ CampaignReturned
    /\ result.campaign_outputs = EmptyDict
    /\ Cardinality(CallsOf({"conduct_research"})) = 1

====
